---------------------------- MODULE Spec2Model ----------------------------
(***************************************************************************)
(* A model of libiphone: USB device open/close (iphone.c), the AFC client  *)
(* (AFC.c), the Notification Proxy client (NotificationProxy.c) and the    *)
(* MobileSync client (MobileSync.c).                                       *)
(*                                                                         *)
(* Each subsystem has its own variables, initial predicate, next-state     *)
(* relation and specification:                                             *)
(*   SpecUsb    iphone_get_specific_device / iphone_config_usb_device /    *)
(*              iphone_free_device, one libusb call per step               *)
(*   SpecAfc    threads calling AFC operations on one client               *)
(*   SpecNp     threads setting the notify callback of and freeing one     *)
(*              Notification Proxy client, the notifier threads included   *)
(*   SpecNpSend threads posting and observing notifications on one client  *)
(*   SpecNpRecv one thread calling iphone_np_get_notification while the    *)
(*              device delivers frames in chunks                           *)
(*   SpecMs     mobilesync_recv while the device delivers a frame in       *)
(*              chunks                                                     *)
(*   SpecUsbDevice  iphone_get_device over the scanned busses and          *)
(*              iphone_free_device on its result                           *)
(*   SpecMsThreads  two threads calling mobilesync_recv on one client      *)
(*   SpecMux    the connections of the USB-mux transport of one device,    *)
(*              every bulk write going through send_to_phone               *)
(*   SpecLockdown   the session and the TLS session of a lockdown client   *)
(*   SpecDeviceClose    iphone_free_device on a device with open mux       *)
(*              connections                                                *)
(*   SpecAfcPacket  afc_dispatch_packet and afc_receive_data: the packet   *)
(*              numbers, the header and the data of a response             *)
(*   SpecNpNotify   one thread registering, replacing and de-registering   *)
(*              callbacks while two notifications arrive                   *)
(*   SpecClientLocks    two threads calling the locking operations of an   *)
(*              AFC client and a Notification Proxy client                 *)
(*   SpecMsFair SpecMs with the calling thread scheduled fairly            *)
(* A specification leaves the variables of the other subsystems at their   *)
(* initial values.                                                         *)
(***************************************************************************)
EXTENDS Integers, Sequences, FiniteSets, TLC

VARIABLES
    \* ---- iphone.c (USB open / close)
    usbBusses,      \* attached devices in scan order: <<[bus, dev, idVendor, idProduct], ...>>
    usbArgs,        \* the calls of the application: [api, bus_n, dev_n, device, free]
    usbPc,          \* position in iphone_get_specific_device
    usbLog,         \* the libusb calls made so far, in order
    phoneDevice,    \* phone->device: "NULL", "handle" or "closed"
    usbVersion,     \* the buffer *version (20 bytes)
    usbBytes,       \* the local `bytes`
    usbDrains,      \* non-empty bulk reads seen so far (bounds the drain loops)
    usbRet,         \* the value returned, "none" while running
    usbOut,         \* *device
    usbPending      \* return value of the caller of iphone_free_device

VARIABLES
    \* ---- NotificationProxy.c (one client, shared by all threads)
    npConnection,   \* client->connection: "conn" or NULL
    npConnFreed,    \* iphone_mux_free_client was called on the connection
    npMutex,        \* client->mutex: the thread holding it, or NULL
    npNotifier,     \* client->notifier: a notifier thread, or NULL
    npClientFreed,  \* free(client) was called
    npFault,        \* the process used freed memory and faulted
    npPc,           \* position of every thread
    npLocal,        \* local variables and arguments of every thread
    npWire,         \* what the senders put on the connection, in order
    npRx,           \* bytes received from the device and not yet read
    npDevice,       \* bytes the device has still to deliver
    npCallbacks,    \* the callbacks invoked by notifier threads, in order
    npCalls         \* number of API calls started so far

npVars == <<npConnection, npConnFreed, npMutex, npNotifier, npClientFreed, npFault,
            npPc, npLocal, npWire, npRx, npDevice, npCallbacks, npCalls>>

usbVars == <<usbBusses, usbArgs, usbPc, usbLog, phoneDevice, usbVersion,
             usbBytes, usbDrains, usbRet, usbOut, usbPending>>

NULL == "NULL"

(***************************************************************************)
(* Byte order.  The host is little-endian: a uint32_t read from memory is  *)
(* the little-endian value of its four bytes, and ntohl/htonl swap bytes.  *)
(***************************************************************************)
HostLoad32(b) == b[1] + b[2] * 256 + b[3] * 65536 + b[4] * 16777216

HostStore32(x) == << x % 256, (x \div 256) % 256, (x \div 65536) % 256,
                     (x \div 16777216) % 256 >>

Ntohl(x) == HostLoad32(<< (x \div 16777216) % 256, (x \div 65536) % 256,
                          (x \div 256) % 256, x % 256 >>)

Htonl(x) == Ntohl(x)

SubSeqFrom(s, i) == IF i > Len(s) THEN << >> ELSE SubSeq(s, i, Len(s))

Take(s, n) == IF n <= 0 THEN << >> ELSE SubSeq(s, 1, IF n < Len(s) THEN n ELSE Len(s))

Drop(s, n) == IF n <= 0 THEN s ELSE SubSeqFrom(s, n + 1)

Min(a, b) == IF a < b THEN a ELSE b

\* memcpy-like: the first Len(src) bytes of dst replaced by src
Overwrite(dst, src) == [i \in 1..Len(dst) |-> IF i <= Len(src) THEN src[i] ELSE dst[i]]


(***************************************************************************)
(*                       iphone.c : USB open / close                       *)
(***************************************************************************)
MaxDrain == 1          \* non-empty bulk reads a drain loop may see
MaxBus == 2            \* bus numbers and device numbers run over 1..MaxBus

ZeroBytes(n) == [i \in 1..n |-> 0]

\* usbmux_version_header as built by version_header(): major = htonl(1),
\* minor = htonl(0), the remaining 12 bytes zero; 20 bytes in all.
version_header == HostStore32(Htonl(1)) \o HostStore32(Htonl(0)) \o ZeroBytes(12)

VersionMajor(version) == HostLoad32(SubSeq(version, 1, 4))

VersionMinor(version) == HostLoad32(SubSeq(version, 5, 8))

\* what a device may answer: 20 bytes with these words as major and minor
VersionWords == { <<0, 0, 0, 1>>, <<1, 0, 0, 0>>, <<0, 0, 0, 0>> }

VersionReplies == { ma \o mi \o ZeroBytes(12) : ma \in VersionWords, mi \in VersionWords }

UsbCall(op, arg, ret, data) == [op |-> op, arg |-> arg, ret |-> ret, data |-> data]

\* every libusb call on the handle: with a NULL handle (usb_open failed) libusb
\* dereferences NULL; the call then either faults (UsbFault) or fails
UsbRets(rets) == IF phoneDevice = NULL THEN {r \in rets : r < 0} ELSE rets

\* iphone_get_specific_device, lines 106-107: if (!device || (device && *device))
DeviceArgInvalid(device) == device \in {"null_pointer", "holds_device"}

\* lines 123-131: the bus/device scan
DeviceFound(busses, bus_n, dev_n) ==
    \E i \in 1..Len(busses) : busses[i].bus = bus_n /\ busses[i].dev = dev_n

\* iphone_config_usb_device, line 46: if (ret != 0) detach, else claim
AfterSetConfiguration(ret) ==
    IF ret # 0 THEN "usb_detach_kernel_driver_np" ELSE "usb_claim_interface"

\* line 52: if (ret != 0) give up, else set the configuration again
AfterDetachAlwaysRetry(ret) == "usb_set_configuration_again"

AfterDetach(ret) ==
    IF ret # 0 THEN "usb_claim_interface" ELSE "usb_set_configuration_again"

\* lines 76-82 and 234-240: do { bytes = usb_bulk_read(...) } while (bytes > 0)
DrainOnce(bytes) == FALSE

DrainAgain(bytes) == bytes > 0

\* lines 153-175: the check of the reply
VersionCheckNoLength(bytes, version) ==
    IF Ntohl(VersionMajor(version)) = 1 /\ Ntohl(VersionMinor(version)) = 0
    THEN "IPHONE_E_SUCCESS"
    ELSE "IPHONE_E_BAD_HEADER"

VersionCheck(bytes, version) ==
    IF bytes < 20
    THEN "IPHONE_E_NOT_ENOUGH_DATA"
    ELSE IF Ntohl(VersionMajor(version)) = 1 /\ Ntohl(VersionMinor(version)) = 0
         THEN "IPHONE_E_SUCCESS"
         ELSE "IPHONE_E_BAD_HEADER"

\* iphone_free_device(phone) called from iphone_get_specific_device: where it
\* starts (line 233: the reads only if device->device != NULL)
FreeDeviceLeaked == "done"

FreeDeviceEntry == IF phoneDevice # NULL THEN "final_read" ELSE "done"

\* iphone_get_device, lines 211-212: the devices it knows
IdVendorApple == 1452        \* 0x05ac

IdProductFirst == 4752       \* 0x1290

IdProductLast == 4755        \* 0x1293

IsKnownDeviceExclusive(dev) ==
    /\ dev.idVendor = IdVendorApple
    /\ dev.idProduct > IdProductFirst /\ dev.idProduct < IdProductLast

IsKnownDevice(dev) ==
    /\ dev.idVendor = IdVendorApple
    /\ dev.idProduct >= IdProductFirst /\ dev.idProduct <= IdProductLast

\* lines 209-213: the first known device of the scan, 0 if there is none
FirstKnownDevice(busses) ==
    IF \E i \in 1..Len(busses) : IsKnownDevice(busses[i])
    THEN CHOOSE i \in 1..Len(busses) :
            /\ IsKnownDevice(busses[i])
            /\ \A j \in 1..(i - 1) : ~IsKnownDevice(busses[j])
    ELSE 0

\* lines 123-131: the device the scan stops at, the first with both numbers
FoundDevice(busses, bus_n, dev_n) ==
    CHOOSE i \in 1..Len(busses) :
       /\ busses[i].bus = bus_n /\ busses[i].dev = dev_n
       /\ \A j \in 1..(i - 1) : ~(busses[j].bus = bus_n /\ busses[j].dev = dev_n)

UsbDevice(bus, dev, idVendor, idProduct) ==
    [bus |-> bus, dev |-> dev, idVendor |-> idVendor, idProduct |-> idProduct]

\* the attached devices the model is run with, in scan order; bus and dev are
\* the numbers strtoul and strtol read from bus->dirname and dev->filename
UsbInputs ==
    { << >>,
      << UsbDevice(1, 1, IdVendorApple, IdProductFirst) >>,
      << UsbDevice(1, 2, IdVendorApple, IdProductLast),
         UsbDevice(2, 1, IdVendorApple, IdProductFirst + 1) >>,
      << UsbDevice(1, 1, 7531, IdProductFirst),
         UsbDevice(2, 1, IdVendorApple, IdProductFirst + 2) >>,
      << UsbDevice(1, 1, IdVendorApple, IdProductFirst - 1),
         UsbDevice(1, 2, IdVendorApple, IdProductLast + 1) >> }

DeviceArgs == {"null_pointer", "holds_device", "holds_NULL"}

\* the state in which the application makes its call
UsbCalled ==
    /\ usbPc = IF usbArgs.api = "iphone_get_device" THEN "get_device" ELSE "call"
    /\ usbLog = << >>
    /\ phoneDevice = NULL
    /\ usbVersion = << >>
    /\ usbBytes = 0
    /\ usbDrains = 0
    /\ usbRet = "none"
    /\ usbOut = IF usbArgs.device = "holds_device" THEN "other_device" ELSE NULL
    /\ usbPending = "none"

\* a call of iphone_get_specific_device, which does not read the IDs
InitUsb ==
    /\ usbBusses \in { b \in UsbInputs : \A i \in 1..Len(b) : IsKnownDevice(b[i]) }
    /\ usbArgs \in [api : {"iphone_get_specific_device"}, bus_n : 1..MaxBus,
                    dev_n : 1..MaxBus, device : DeviceArgs, free : {"not_called"}]
    /\ UsbCalled

\* a call of iphone_get_device
InitGetDevice ==
    /\ usbBusses \in UsbInputs
    /\ usbArgs \in [api : {"iphone_get_device"}, bus_n : {0}, dev_n : {0},
                    device : DeviceArgs, free : {"not_called"}]
    /\ UsbCalled

\* lines 200-216: the scan for a known device; iphone_get_specific_device is
\* called with the numbers of the first one
iphone_get_device ==
    /\ usbPc = "get_device"
    /\ LET i == FirstKnownDevice(usbBusses)
       IN  IF i = 0
           THEN /\ usbRet' = "IPHONE_E_NO_DEVICE"
                /\ usbPc' = "done"
                /\ usbArgs' = usbArgs
           ELSE /\ usbArgs' = [usbArgs EXCEPT !.bus_n = usbBusses[i].bus,
                                              !.dev_n = usbBusses[i].dev]
                /\ usbPc' = "call"
                /\ usbRet' = usbRet
    /\ UNCHANGED <<usbBusses, usbLog, phoneDevice, usbVersion, usbBytes, usbDrains,
                   usbOut, usbPending>>

\* lines 98-136: argument check, scan, usb_open; or not found
iphone_get_specific_device ==
    /\ usbPc = "call"
    /\ IF DeviceArgInvalid(usbArgs.device)
       THEN /\ usbRet' = "IPHONE_E_INVALID_ARG"
            /\ usbPc' = "done"
            /\ UNCHANGED <<usbLog, phoneDevice>>
       ELSE IF DeviceFound(usbBusses, usbArgs.bus_n, usbArgs.dev_n)
            THEN /\ \E h \in {"handle", NULL} :
                       /\ phoneDevice' = h
                       /\ usbLog' = Append(usbLog, UsbCall("usb_open",
                                             FoundDevice(usbBusses, usbArgs.bus_n, usbArgs.dev_n),
                                             IF h = NULL THEN -1 ELSE 0, << >>))
                 /\ usbPc' = "usb_set_configuration"
                 /\ usbRet' = usbRet
            ELSE \* iphone_free_device(phone) with phone->device == NULL
                 /\ usbRet' = "IPHONE_E_NO_DEVICE"
                 /\ usbPc' = "done"
                 /\ UNCHANGED <<usbLog, phoneDevice>>
    /\ UNCHANGED <<usbBusses, usbArgs, usbVersion, usbBytes, usbDrains, usbOut, usbPending>>

\* iphone_config_usb_device, line 45
usb_set_configuration ==
    /\ usbPc = "usb_set_configuration"
    /\ \E ret \in UsbRets({0, -1}) :
          /\ usbLog' = Append(usbLog, UsbCall("usb_set_configuration", 3, ret, << >>))
          /\ usbPc' = AfterSetConfiguration(ret)
    /\ UNCHANGED <<usbBusses, usbArgs, phoneDevice, usbVersion, usbBytes, usbDrains,
                   usbRet, usbOut, usbPending>>

\* line 49-51
usb_detach_kernel_driver_np ==
    /\ usbPc = "usb_detach_kernel_driver_np"
    /\ \E ret \in UsbRets({0, -1}) :
          /\ usbLog' = Append(usbLog, UsbCall("usb_detach_kernel_driver_np", 0, ret, << >>))
          /\ usbPc' = AfterDetach(ret)
    /\ UNCHANGED <<usbBusses, usbArgs, phoneDevice, usbVersion, usbBytes, usbDrains,
                   usbRet, usbOut, usbPending>>

\* line 57
usb_set_configuration_again ==
    /\ usbPc = "usb_set_configuration_again"
    /\ \E ret \in UsbRets({0, -1}) :
          usbLog' = Append(usbLog, UsbCall("usb_set_configuration", 3, ret, << >>))
    /\ usbPc' = "usb_claim_interface"
    /\ UNCHANGED <<usbBusses, usbArgs, phoneDevice, usbVersion, usbBytes, usbDrains,
                   usbRet, usbOut, usbPending>>

\* line 69
usb_claim_interface ==
    /\ usbPc = "usb_claim_interface"
    /\ \E ret \in UsbRets({0, -1}) :
          usbLog' = Append(usbLog, UsbCall("usb_claim_interface", 1, ret, << >>))
    /\ usbPc' = "initial_read"
    /\ UNCHANGED <<usbBusses, usbArgs, phoneDevice, usbVersion, usbBytes, usbDrains,
                   usbRet, usbOut, usbPending>>

\* lines 76-82
initial_read ==
    /\ usbPc = "initial_read"
    /\ \E bytes \in UsbRets({-1, 0} \cup (IF usbDrains < MaxDrain THEN {64} ELSE {})) :
          /\ usbLog' = Append(usbLog, UsbCall("usb_bulk_read", 512, bytes, << >>))
          /\ usbBytes' = bytes
          /\ usbDrains' = IF bytes > 0 THEN usbDrains + 1 ELSE 0
          /\ usbPc' = IF DrainAgain(bytes) THEN "initial_read" ELSE "version_write"
    /\ UNCHANGED <<usbBusses, usbArgs, phoneDevice, usbVersion, usbRet, usbOut, usbPending>>

\* lines 140-148: the version packet is written, a short write only logged
version_write ==
    /\ usbPc = "version_write"
    /\ \E bytes \in UsbRets({-1, 8, 20}) :
          /\ usbLog' = Append(usbLog, UsbCall("usb_bulk_write", 20, bytes,
                                               Take(version_header, bytes)))
          /\ usbBytes' = bytes
    /\ usbVersion' = version_header
    /\ usbPc' = "version_read"
    /\ UNCHANGED <<usbBusses, usbArgs, phoneDevice, usbDrains, usbRet, usbOut, usbPending>>

\* lines 150-175: the reply is read into *version and checked
version_read ==
    /\ usbPc = "version_read"
    /\ \E bytes \in UsbRets({-1, 0, 8, 19, 20}), reply \in VersionReplies :
          LET data == Take(reply, bytes)
              version == Overwrite(usbVersion, data)
              res == VersionCheck(bytes, version)
          IN  /\ usbLog' = Append(usbLog, UsbCall("usb_bulk_read", 20, bytes, data))
              /\ usbBytes' = bytes
              /\ usbVersion' = version
              /\ IF res = "IPHONE_E_SUCCESS"
                 THEN /\ usbOut' = "phone"
                      /\ usbRet' = res
                      /\ usbPc' = "done"
                      /\ usbPending' = usbPending
                 ELSE \* iphone_free_device(phone), then return res
                      /\ usbOut' = usbOut
                      /\ usbPending' = res
                      /\ usbPc' = FreeDeviceEntry
                      /\ usbRet' = IF FreeDeviceEntry = "done" THEN res ELSE usbRet
    /\ usbDrains' = 0
    /\ UNCHANGED <<usbBusses, usbArgs, phoneDevice>>

\* iphone_free_device called by the application, lines 224-233, with NULL or
\* with the device a successful open returned
iphone_free_device ==
    /\ usbPc = "done"
    /\ \E device \in {NULL} \cup ({usbOut} \cap {"phone"}) :
          /\ usbArgs' = [usbArgs EXCEPT !.free = device]
          /\ IF device = NULL
             THEN /\ usbRet' = "IPHONE_E_INVALID_ARG"
                  /\ usbPc' = "freed"
             ELSE IF FreeDeviceEntry = "done"
                  THEN /\ usbRet' = "IPHONE_E_UNKNOWN_ERROR"
                       /\ usbPc' = "freed"
                  ELSE /\ usbRet' = "none"
                       /\ usbPc' = FreeDeviceEntry
    /\ usbDrains' = 0
    /\ UNCHANGED <<usbBusses, usbLog, phoneDevice, usbVersion, usbBytes, usbOut, usbPending>>

\* iphone_free_device, lines 233-241
final_read ==
    /\ usbPc = "final_read"
    /\ \E bytes \in {-1, 0} \cup (IF usbDrains < MaxDrain THEN {64} ELSE {}) :
          /\ usbLog' = Append(usbLog, UsbCall("usb_bulk_read", 512, bytes, << >>))
          /\ usbBytes' = bytes
          /\ usbDrains' = IF bytes > 0 THEN usbDrains + 1 ELSE 0
          /\ usbPc' = IF DrainAgain(bytes) THEN "final_read" ELSE "usb_release_interface"
    /\ UNCHANGED <<usbBusses, usbArgs, phoneDevice, usbVersion, usbRet, usbOut, usbPending>>

\* line 247
usb_release_interface ==
    /\ usbPc = "usb_release_interface"
    /\ usbLog' = Append(usbLog, UsbCall("usb_release_interface", 1, 0, << >>))
    /\ usbPc' = "usb_close"
    /\ UNCHANGED <<usbBusses, usbArgs, phoneDevice, usbVersion, usbBytes, usbDrains,
                   usbRet, usbOut, usbPending>>

\* lines 248-252: iphone_free_device returns IPHONE_E_SUCCESS, to the
\* application or to iphone_get_specific_device, which returns its own code
usb_close ==
    /\ usbPc = "usb_close"
    /\ usbLog' = Append(usbLog, UsbCall("usb_close", 0, 0, << >>))
    /\ phoneDevice' = "closed"
    /\ IF usbArgs.free = "not_called"
       THEN /\ usbRet' = usbPending
            /\ usbPc' = "done"
       ELSE /\ usbRet' = "IPHONE_E_SUCCESS"
            /\ usbPc' = "freed"
    /\ UNCHANGED <<usbBusses, usbArgs, usbVersion, usbBytes, usbDrains, usbOut, usbPending>>

\* a libusb call on the NULL handle left by a failed usb_open faults
UsbFault ==
    /\ phoneDevice = NULL
    /\ usbPc \in {"usb_set_configuration", "usb_detach_kernel_driver_np",
                  "usb_set_configuration_again", "usb_claim_interface",
                  "initial_read", "version_write", "version_read"}
    /\ usbPc' = "crashed"
    /\ UNCHANGED <<usbBusses, usbArgs, usbLog, phoneDevice, usbVersion, usbBytes,
                   usbDrains, usbRet, usbOut, usbPending>>

(***************************************************************************)
(* Claims about iphone_get_specific_device (checked under SpecUsb).        *)
(***************************************************************************)
\* the big-endian (network order) value of four bytes on the wire
WireU32(b) == ((b[1] * 256 + b[2]) * 256 + b[3]) * 256 + b[4]

\* the reply read after the version packet, << >> if none was read
VersionReplyRead ==
    LET idx == { i \in 2..Len(usbLog) : /\ usbLog[i].op = "usb_bulk_read"
                                        /\ usbLog[i - 1].op = "usb_bulk_write" }
    IN  IF idx = {} THEN << >> ELSE usbLog[CHOOSE i \in idx : TRUE].data

ReplyIsVersion1_0 ==
    /\ Len(VersionReplyRead) >= 20
    /\ WireU32(SubSeq(VersionReplyRead, 1, 4)) = 1
    /\ WireU32(SubSeq(VersionReplyRead, 5, 8)) = 0

\* C1: iphone_get_specific_device returns IPHONE_E_SUCCESS and stores the
\* device handle in *device if and only if the reply read after the version
\* packet is at least 20 bytes long and carries major = 1 and minor = 0 in
\* network byte order; a full-length reply with any other major or minor
\* returns IPHONE_E_BAD_HEADER.
C1_SuccessIffVersionReply ==
    usbPc = "done" =>
        /\ (usbRet = "IPHONE_E_SUCCESS" /\ usbOut = "phone") <=> ReplyIsVersion1_0
        /\ (usbRet = "IPHONE_E_SUCCESS") <=> ReplyIsVersion1_0
        /\ (Len(VersionReplyRead) >= 20 /\ ~ReplyIsVersion1_0)
               => usbRet = "IPHONE_E_BAD_HEADER"

C1_Witness ==
    /\ usbPc = "done"
    /\ usbRet = "IPHONE_E_SUCCESS"
    /\ usbOut = "phone"
    /\ ReplyIsVersion1_0

IsCall(i, op) == i \in 1..Len(usbLog) /\ usbLog[i].op = op

\* the bulk read that returned the version reply: the one right after the write
IsVersionRead(i) == IsCall(i, "usb_bulk_read") /\ IsCall(i - 1, "usb_bulk_write")

\* a bulk read of the drain loop of iphone_config_usb_device
IsInitialRead(i) ==
    /\ IsCall(i, "usb_bulk_read")
    /\ \A j \in 1..i : ~IsCall(j, "usb_bulk_write")

\* C10: during device open the USB steps occur in this order: set
\* configuration 3; only if that fails, detach the kernel driver and, only if
\* the detach succeeds, set configuration 3 one more time (never a third
\* attempt); claim interface 1; read bulk-in repeatedly until a read returns
\* no data; and only after such an empty read is the version packet written
\* and its reply read.
C10_OpenOrder ==
    /\ \A i \in 1..Len(usbLog) :
          /\ IsCall(i, "usb_open") => i = 1
          /\ IsCall(i, "usb_set_configuration") =>
                /\ usbLog[i].arg = 3
                /\ \/ IsCall(i - 1, "usb_open")
                   \/ /\ IsCall(i - 1, "usb_detach_kernel_driver_np")
                      /\ usbLog[i - 1].ret = 0
          /\ IsCall(i, "usb_detach_kernel_driver_np") =>
                /\ IsCall(i - 1, "usb_set_configuration")
                /\ usbLog[i - 1].ret # 0
                /\ IsCall(i - 2, "usb_open")
          /\ IsCall(i, "usb_claim_interface") =>
                /\ usbLog[i].arg = 1
                /\ \/ IsCall(i - 1, "usb_set_configuration") /\ usbLog[i - 1].ret = 0
                   \/ IsCall(i - 1, "usb_set_configuration")
                         /\ IsCall(i - 2, "usb_detach_kernel_driver_np")
                   \/ IsCall(i - 1, "usb_detach_kernel_driver_np") /\ usbLog[i - 1].ret # 0
          /\ IsInitialRead(i) =>
                \/ IsCall(i - 1, "usb_claim_interface")
                \/ IsInitialRead(i - 1) /\ usbLog[i - 1].ret > 0
          /\ IsCall(i, "usb_bulk_write") =>
                /\ IsInitialRead(i - 1)
                /\ usbLog[i - 1].ret <= 0
          /\ IsVersionRead(i) =>
                Cardinality({j \in 1..Len(usbLog) : IsCall(j, "usb_bulk_write")}) = 1
    /\ Cardinality({i \in 1..Len(usbLog) : IsCall(i, "usb_set_configuration")}) <= 2
    /\ Cardinality({i \in 1..Len(usbLog) : IsCall(i, "usb_claim_interface")}) <= 1
    \* the steps are not skipped: once past a step, it is in the log
    /\ usbPc \in {"usb_claim_interface", "initial_read", "version_write", "version_read"}
          => \E i \in 1..Len(usbLog) : IsCall(i, "usb_set_configuration")
    /\ usbPc \in {"initial_read", "version_write", "version_read"}
          => \E i \in 1..Len(usbLog) : IsCall(i, "usb_claim_interface")
    /\ usbPc = "version_read"
          => \E i \in 1..Len(usbLog) : IsCall(i, "usb_bulk_write")

C10_Witness ==
    /\ \E i \in 1..Len(usbLog) : IsVersionRead(i)
    /\ \E i \in 1..Len(usbLog) : IsCall(i, "usb_detach_kernel_driver_np") /\ usbLog[i].ret = 0
    /\ \E i \in 1..Len(usbLog) : IsInitialRead(i) /\ usbLog[i].ret > 0
    /\ Cardinality({i \in 1..Len(usbLog) : IsCall(i, "usb_set_configuration")}) = 2

\* the bulk write of the version packet and the bulk read of the reply, 0 if
\* the call has not come that far
VersionWriteIndex ==
    IF \E i \in 1..Len(usbLog) : IsCall(i, "usb_bulk_write")
    THEN CHOOSE i \in 1..Len(usbLog) : IsCall(i, "usb_bulk_write")
    ELSE 0

VersionReadIndex ==
    IF \E i \in 1..Len(usbLog) : IsVersionRead(i)
    THEN CHOOSE i \in 1..Len(usbLog) : IsVersionRead(i)
    ELSE 0

\* C11: during device open a short bulk transfer fails the open: if fewer
\* than 20 bytes of the version packet are written, or fewer than 20 bytes of
\* the reply are read, iphone_get_specific_device returns a non-success code
\* (IPHONE_E_NOT_ENOUGH_DATA for the short read), never IPHONE_E_SUCCESS.
C11_ShortTransferFailsOpen ==
    (usbPc = "done" /\ VersionReadIndex # 0) =>
        /\ usbLog[VersionWriteIndex].ret < 20 => usbRet # "IPHONE_E_SUCCESS"
        /\ usbLog[VersionReadIndex].ret < 20 => usbRet = "IPHONE_E_NOT_ENOUGH_DATA"

\* the attached devices with vendor 0x05AC and a product ID in 0x1290..0x1293
KnownIndexes ==
    { i \in 1..Len(usbBusses) : /\ usbBusses[i].idVendor = 1452
                                /\ usbBusses[i].idProduct \in 4752..4755 }

OpenCalls == { i \in 1..Len(usbLog) : IsCall(i, "usb_open") }

\* C12: iphone_get_device returns IPHONE_E_NO_DEVICE if and only if no
\* attached USB device has vendor 0x05AC and a product ID in 0x1290..0x1293
\* inclusive; otherwise it opens the first such device in scan order, makes
\* one open attempt only and returns the result of that attempt.
C12_GetDevice ==
    usbArgs.api = "iphone_get_device" =>
        /\ (usbPc = "done" /\ usbArgs.free = "not_called") =>
               /\ usbRet = "IPHONE_E_NO_DEVICE" <=> KnownIndexes = {}
               /\ KnownIndexes # {} =>
                     /\ usbRet = "IPHONE_E_INVALID_ARG" <=> usbArgs.device # "holds_NULL"
                     /\ usbArgs.device = "holds_NULL" => Cardinality(OpenCalls) = 1
                     /\ usbRet = "IPHONE_E_SUCCESS" <=> ReplyIsVersion1_0
        /\ Cardinality(OpenCalls) <= 1
        /\ \A i \in OpenCalls :
               /\ usbLog[i].arg \in KnownIndexes
               /\ \A k \in KnownIndexes : usbLog[i].arg <= k
        /\ KnownIndexes = {} => usbLog = << >>

C12_Witness ==
    /\ usbArgs.api = "iphone_get_device"
    /\ usbPc = "done"
    /\ usbRet = "IPHONE_E_SUCCESS"
    /\ \E i \in OpenCalls : usbLog[i].arg = 2

\* the libusb calls iphone_free_device made for the application
FreeCalls == (VersionReadIndex + 1)..Len(usbLog)

\* C13: iphone_free_device on a device with an open USB handle performs, in
\* this order, reads of bulk-in until a read returns no data, the release of
\* interface 1 and the close of the handle, and then returns
\* IPHONE_E_SUCCESS; with a NULL device it returns IPHONE_E_INVALID_ARG and
\* performs no USB operation.
C13_FreeDevice ==
    /\ [](usbArgs.free = "phone" =>
            /\ \A i \in FreeCalls :
                  /\ usbLog[i].op \in {"usb_bulk_read", "usb_release_interface", "usb_close"}
                  /\ IsCall(i, "usb_bulk_read") =>
                        \/ i - 1 = VersionReadIndex
                        \/ IsCall(i - 1, "usb_bulk_read") /\ usbLog[i - 1].ret > 0
                  /\ IsCall(i, "usb_release_interface") =>
                        /\ usbLog[i].arg = 1
                        /\ i - 1 \in FreeCalls
                        /\ IsCall(i - 1, "usb_bulk_read") /\ usbLog[i - 1].ret <= 0
                  /\ IsCall(i, "usb_close") =>
                        /\ IsCall(i - 1, "usb_release_interface")
                        /\ i = Len(usbLog)
            /\ usbPc = "freed" =>
                  /\ IsCall(Len(usbLog), "usb_close")
                  /\ Len(usbLog) \in FreeCalls
                  /\ usbRet = "IPHONE_E_SUCCESS"
            /\ usbRet = "IPHONE_E_SUCCESS" => usbPc = "freed")
    /\ [][(usbArgs.free = "not_called" /\ usbArgs'.free = NULL) =>
            /\ usbLog' = usbLog
            /\ usbRet' = "IPHONE_E_INVALID_ARG"
            /\ usbPc' = "freed"]_usbVars
    /\ [](usbArgs.free = NULL => usbRet = "IPHONE_E_INVALID_ARG" /\ usbPc = "freed")

C13_Witness ==
    /\ usbArgs.free = "phone"
    /\ usbPc = "freed"
    /\ usbRet = "IPHONE_E_SUCCESS"
    /\ Len(usbLog) = VersionReadIndex + 4
    /\ usbLog[VersionReadIndex + 1].ret > 0


(***************************************************************************)
(*                Property lists and their framing on the wire             *)
(***************************************************************************)
\* The nodes a plist dict is made of; a dict is a sequence of nodes, keys
\* and values alternating in document order.  Node i is byte 100 + i of an
\* XML document, which opens with byte 60 and closes with byte 62.
PlistNodes ==
    << [type |-> "PLIST_KEY",    val |-> "Command"],
       [type |-> "PLIST_STRING", val |-> "RelayNotification"],
       [type |-> "PLIST_KEY",    val |-> "Name"],
       [type |-> "PLIST_STRING", val |-> "com.apple.mobile.application_installed"],
       [type |-> "PLIST_STRING", val |-> "ProxyDeath"],
       [type |-> "PLIST_STRING", val |-> "NoSuchCommand"],
       [type |-> "PLIST_UINT",   val |-> "7"],
       [type |-> "PLIST_STRING", val |-> "PostNotification"],
       [type |-> "PLIST_STRING", val |-> "ObserveNotification"],
       [type |-> "PLIST_STRING", val |-> "Shutdown"],
       [type |-> "PLIST_KEY",    val |-> "Other"],
       [type |-> "PLIST_STRING", val |-> "DLMessageVersionExchange"],
       [type |-> "PLIST_STRING", val |-> "DLMessageDeviceReady"],
       [type |-> "PLIST_UINT",   val |-> "100"],
       [type |-> "PLIST_STRING", val |-> "com.apple.itunes-mobdev.syncDidStart"] >>

NodeByte(node) == 100 + (CHOOSE i \in 1..Len(PlistNodes) : PlistNodes[i] = node)

NoDict == [ok |-> FALSE, nodes |-> << >>]

\* plist_to_xml
plist_to_xml(dict) == <<60>> \o [i \in 1..Len(dict) |-> NodeByte(dict[i])] \o <<62>>

\* plist_from_xml(content, length): the dict, or no dict when the bytes are
\* not one complete well-formed document
plist_from_xml(content, length) ==
    LET b == Take(content, length)
        n == Len(b)
    IN  IF /\ n >= 2
           /\ b[1] = 60
           /\ b[n] = 62
           /\ \A i \in 2..(n - 1) : b[i] \in 101..(100 + Len(PlistNodes))
        THEN [ok |-> TRUE, nodes |-> [i \in 1..(n - 2) |-> PlistNodes[b[i + 1] - 100]]]
        ELSE NoDict

\* plist_find_node_by_key: index of the first key node with that name, 0 for NULL
plist_find_node_by_key(dict, key) ==
    LET hits == { i \in 1..Len(dict) : dict[i].type = "PLIST_KEY" /\ dict[i].val = key }
    IN  IF hits = {} THEN 0 ELSE CHOOSE i \in hits : \A j \in hits : i <= j

\* plist_get_next_sibling: 0 for NULL
plist_get_next_sibling(dict, i) == IF i = 0 \/ i >= Len(dict) THEN 0 ELSE i + 1

plist_get_node_type(dict, i) == IF i = 0 THEN "PLIST_NONE" ELSE dict[i].type

\* a frame: the payload length as a big-endian u32, then the payload
Frame(payload) == HostStore32(Htonl(Len(payload))) \o payload

(***************************************************************************)
(*                 NotificationProxy.c : one client, threads               *)
(***************************************************************************)
MaxNpCalls == 3        \* API calls the application threads make in all
MaxNotifiers == 2      \* notifier threads that may be created

Apps == {"app1", "app2"}

NotifierNames == << "notifier1", "notifier2", "notifier3" >>

Notifiers == { NotifierNames[i] : i \in 1..MaxNotifiers }

NpThreads == Apps \cup Notifiers

NotifierIndex(n) == CHOOSE i \in 1..Len(NotifierNames) : NotifierNames[i] = n

NpLocalInit ==
    [op |-> "none", client |-> NULL, cb |-> NULL, notification |-> NULL,
     notifIn |-> NULL, bytes |-> 0, pktlen |-> 0, XML_content |-> << >>,
     dict |-> NoDict, res |-> "none", ret |-> "none", conn |-> NULL,
     sent |-> 0, doc |-> << >>, call |-> 0, rxconn |-> NULL, stream0 |-> << >>,
     connAtCall |-> NULL, connAtLock |-> NULL, created |-> NULL, returned |-> << >>,
     locks |-> 0]

NpSet(t, r) == [npLocal EXCEPT ![t] = r]

NpGoto(t, pc) == [npPc EXCEPT ![t] = pc]

\* the application has not begun to free the client
NpClientLive ==
    /\ ~npClientFreed
    /\ \A u \in Apps : npLocal[u].op # "iphone_np_free_client" \/ npLocal[u].client = NULL

\* thread t is about to execute the statement at pc; nothing runs once the
\* process has faulted
At(t, pc) == ~npFault /\ npPc[t] = pc

\* the documents a device may send
RelayWithName == << PlistNodes[1], PlistNodes[2], PlistNodes[3], PlistNodes[4] >>

NameThenRelay == << PlistNodes[3], PlistNodes[4], PlistNodes[1], PlistNodes[2] >>

RelaySyncDidStart == << PlistNodes[1], PlistNodes[2], PlistNodes[3], PlistNodes[15] >>

RelayNoName == << PlistNodes[1], PlistNodes[2] >>

RelayNameNotString == << PlistNodes[1], PlistNodes[2], PlistNodes[3], PlistNodes[7] >>

RelayOtherKey == << PlistNodes[1], PlistNodes[2], PlistNodes[11], PlistNodes[4] >>

ProxyDeath == << PlistNodes[1], PlistNodes[5] >>

UnknownCommand == << PlistNodes[1], PlistNodes[6] >>

CommandNotString == << PlistNodes[1], PlistNodes[7] >>

NoCommand == << PlistNodes[11], PlistNodes[4] >>

\* a payload that is no XML document
NotXml == << 60, 101, 33 >>

\* the plists the senders build
PostNotificationDict(notification) ==
    << PlistNodes[1], PlistNodes[8], PlistNodes[3],
       [type |-> "PLIST_STRING", val |-> notification] >>

ShutdownDict == << PlistNodes[1], PlistNodes[10] >>

ObserveNotificationDict(notification) ==
    << PlistNodes[1], PlistNodes[9], PlistNodes[3],
       [type |-> "PLIST_STRING", val |-> notification] >>

(***************************************************************************)
(* The mux connection, as the service clients use it.  A receive returns   *)
(* the bytes that have arrived, at most as many as asked for, and none     *)
(* when nothing arrived in time or there is no connection.                 *)
(***************************************************************************)
MuxRecvData(conn, rx, datalen) == IF conn = NULL THEN << >> ELSE Take(rx, datalen)

\* the device delivers the next k bytes of what it has to send
NpDeviceDeliver(k) ==
    /\ ~npFault
    /\ k \in 1..Len(npDevice)
    /\ npRx' = npRx \o Take(npDevice, k)
    /\ npDevice' = Drop(npDevice, k)
    /\ UNCHANGED <<npConnection, npConnFreed, npMutex, npNotifier, npClientFreed, npFault,
                   npPc, npLocal, npWire, npCallbacks, npCalls>>

\* np_lock, lines 80-84: g_mutex_lock blocks while another thread holds the mutex
np_lock_free_for_all(t) == TRUE

np_lock(t) == npMutex = NULL

(***************************************************************************)
(* iphone_np_get_notification, lines 332-425                               *)
(***************************************************************************)
\* where a thread continues when iphone_np_get_notification returns
NpAfterGet(t) == IF t \in Notifiers THEN "nt_callback" ELSE "idle"

\* line 340: if (!client || !client->connection || *notification)
gn_check(t) ==
    /\ At(t, "gn_check")
    /\ IF \/ npLocal[t].client = NULL
          \/ npConnection = NULL
          \/ npLocal[t].notification # NULL
       THEN /\ npLocal' = NpSet(t, [npLocal[t] EXCEPT !.ret = "IPHONE_E_INVALID_ARG"])
            /\ npPc' = NpGoto(t, NpAfterGet(t))
       ELSE /\ npPc' = NpGoto(t, "gn_lock")
            /\ UNCHANGED npLocal
    /\ UNCHANGED <<npConnection, npConnFreed, npMutex, npNotifier, npClientFreed, npFault,
                   npWire, npRx, npDevice, npCallbacks, npCalls>>

\* line 344
gn_lock(t) ==
    /\ At(t, "gn_lock")
    /\ np_lock(t)
    /\ npMutex' = t
    /\ npLocal' = NpSet(t, [npLocal[t] EXCEPT !.locks = @ + 1])
    /\ npPc' = NpGoto(t, "gn_recv_len")
    /\ UNCHANGED <<npConnection, npConnFreed, npNotifier, npClientFreed, npFault,
                   npWire, npRx, npDevice, npCallbacks, npCalls>>

\* line 346: iphone_mux_recv_timeout is entered with the connection as it is now
gn_recv_len(t) ==
    /\ At(t, "gn_recv_len")
    /\ npLocal' = NpSet(t, [npLocal[t] EXCEPT !.rxconn = npConnection])
    /\ npPc' = NpGoto(t, "gn_recv_len_end")
    /\ UNCHANGED <<npConnection, npConnFreed, npMutex, npNotifier, npClientFreed, npFault,
                   npWire, npRx, npDevice, npCallbacks, npCalls>>

\* lines 348-354, after the receive returned `data`
NpAfterLength(bytes, pktlen) ==
    IF bytes < 4
    THEN [res |-> "IPHONE_E_TIMEOUT", pktlen |-> HostLoad32(pktlen), pc |-> "gn_unlock"]
    ELSE IF pktlen[1] = 0      \* (char)pktlen == 0
         THEN [res |-> "none", pktlen |-> Ntohl(HostLoad32(pktlen)), pc |-> "gn_recv_payload"]
         ELSE [res |-> "IPHONE_E_UNKNOWN_ERROR", pktlen |-> HostLoad32(pktlen),
               pc |-> "gn_unlock"]

\* lines 346-354: the receive of the length returns
gn_recv_len_end(t) ==
    /\ At(t, "gn_recv_len_end")
    /\ ~(npLocal[t].rxconn # NULL /\ npConnFreed)
    /\ LET data == MuxRecvData(npLocal[t].rxconn, npRx, 4)
           pktlen == Overwrite(HostStore32(0), data)
           next == NpAfterLength(Len(data), pktlen)
       IN  /\ npRx' = Drop(npRx, Len(data))
           /\ npLocal' = NpSet(t, [npLocal[t] EXCEPT !.bytes = Len(data),
                                                     !.pktlen = next.pktlen,
                                                     !.res = next.res])
           /\ npPc' = NpGoto(t, next.pc)
    /\ UNCHANGED <<npConnection, npConnFreed, npMutex, npNotifier, npClientFreed, npFault,
                   npWire, npDevice, npCallbacks, npCalls>>

\* line 358: the receive of the payload is entered
gn_recv_payload(t) ==
    /\ At(t, "gn_recv_payload")
    /\ npLocal' = NpSet(t, [npLocal[t] EXCEPT !.rxconn = npConnection])
    /\ npPc' = NpGoto(t, "gn_recv_payload_end")
    /\ UNCHANGED <<npConnection, npConnFreed, npMutex, npNotifier, npClientFreed, npFault,
                   npWire, npRx, npDevice, npCallbacks, npCalls>>

\* lines 371-408: the received dict is interpreted
NpInterpretAnyCommand(dict, notification) ==
    LET name_value_node == plist_find_node_by_key(dict, "Name")
    IN  IF name_value_node # 0 /\ name_value_node < Len(dict)
        THEN [res |-> "IPHONE_E_SUCCESS", notification |-> dict[name_value_node + 1].val]
        ELSE [res |-> "IPHONE_E_PLIST_ERROR", notification |-> notification]

NpInterpret(dict, notification) ==
    LET cmd_key_node == plist_find_node_by_key(dict, "Command")
        cmd_value_node == plist_get_next_sibling(dict, cmd_key_node)
        cmd_value == IF plist_get_node_type(dict, cmd_value_node) = "PLIST_STRING"
                     THEN dict[cmd_value_node].val ELSE NULL
        name_key_node == plist_get_next_sibling(dict, cmd_value_node)
        name_value_node == plist_get_next_sibling(dict, name_key_node)
        name_key == IF plist_get_node_type(dict, name_key_node) = "PLIST_KEY"
                    THEN dict[name_key_node].val ELSE NULL
        name_value == IF plist_get_node_type(dict, name_value_node) = "PLIST_STRING"
                      THEN dict[name_value_node].val ELSE NULL
    IN  IF cmd_value = "RelayNotification"
        THEN IF name_key # NULL /\ name_value # NULL /\ name_key = "Name"
             THEN [res |-> "IPHONE_E_SUCCESS", notification |-> name_value]
             ELSE [res |-> "IPHONE_E_PLIST_ERROR", notification |-> notification]
        ELSE IF cmd_value = "ProxyDeath"
             THEN [res |-> "IPHONE_E_UNKNOWN_ERROR", notification |-> notification]
             ELSE IF cmd_value # NULL
                  THEN [res |-> "IPHONE_E_UNKNOWN_ERROR", notification |-> notification]
                  ELSE [res |-> "IPHONE_E_PLIST_ERROR", notification |-> notification]

\* lines 358-416: the one receive of the payload returns; what it returned is parsed
gn_recv_payload_end(t) ==
    /\ At(t, "gn_recv_payload_end")
    /\ ~(npLocal[t].rxconn # NULL /\ npConnFreed)
    /\ LET data == MuxRecvData(npLocal[t].rxconn, npRx, npLocal[t].pktlen)
           bytes == Len(data)
           dict == plist_from_xml(data, bytes)
           got == NpInterpret(dict.nodes, npLocal[t].notification)
       IN  /\ npRx' = Drop(npRx, bytes)
           /\ npLocal' = NpSet(t,
                 IF bytes <= 0
                 THEN [npLocal[t] EXCEPT !.bytes = bytes, !.XML_content = data,
                                         !.res = "IPHONE_E_UNKNOWN_ERROR"]
                 ELSE IF ~dict.ok
                      THEN [npLocal[t] EXCEPT !.bytes = bytes, !.XML_content = data,
                                              !.dict = dict,
                                              !.res = "IPHONE_E_PLIST_ERROR"]
                      ELSE [npLocal[t] EXCEPT !.bytes = bytes, !.XML_content = data,
                                              !.dict = dict,
                                              !.res = got.res,
                                              !.notification = got.notification])
    /\ npPc' = NpGoto(t, "gn_unlock")
    /\ UNCHANGED <<npConnection, npConnFreed, npMutex, npNotifier, npClientFreed, npFault,
                   npWire, npDevice, npCallbacks, npCalls>>

\* a receive that is using a connection freed meanwhile reads freed memory:
\* the process faults, or the receive fails with no data
gn_recv_freed(t) ==
    /\ ~npFault
    /\ npPc[t] \in {"gn_recv_len_end", "gn_recv_payload_end"}
    /\ npLocal[t].rxconn # NULL /\ npConnFreed
    /\ \/ /\ npFault' = TRUE
          /\ UNCHANGED <<npPc, npLocal>>
       \/ /\ npFault' = npFault
          /\ npLocal' = NpSet(t, [npLocal[t] EXCEPT
                 !.bytes = 0,
                 !.res = IF npPc[t] = "gn_recv_len_end" THEN "IPHONE_E_TIMEOUT"
                         ELSE "IPHONE_E_UNKNOWN_ERROR"])
          /\ npPc' = NpGoto(t, "gn_unlock")
    /\ UNCHANGED <<npConnection, npConnFreed, npMutex, npNotifier, npClientFreed,
                   npWire, npRx, npDevice, npCallbacks, npCalls>>

\* lines 367 and 422-424: np_unlock and return; `returned` keeps what the
\* calls of a notifier thread have handed to it in *notification
gn_unlock(t) ==
    /\ At(t, "gn_unlock")
    /\ npMutex' = NULL
    /\ npLocal' = NpSet(t, [npLocal[t] EXCEPT
           !.ret = npLocal[t].res,
           !.returned = IF t \in Notifiers /\ npLocal[t].notification # NULL
                        THEN Append(@, npLocal[t].notification) ELSE @])
    /\ npPc' = NpGoto(t, NpAfterGet(t))
    /\ UNCHANGED <<npConnection, npConnFreed, npNotifier, npClientFreed, npFault,
                   npWire, npRx, npDevice, npCallbacks, npCalls>>

\* an application thread calls iphone_np_get_notification(client, &notification)
call_get_notification(t, client, notification) ==
    /\ At(t, "idle")
    /\ NpClientLive
    /\ npCalls' = npCalls + 1
    /\ npLocal' = NpSet(t, [NpLocalInit EXCEPT !.op = "iphone_np_get_notification",
                                               !.client = client,
                                               !.notification = notification,
                                               !.notifIn = notification,
                                               !.call = npCalls + 1,
                                               !.stream0 = npRx \o npDevice])
    /\ npPc' = NpGoto(t, "gn_check")
    /\ UNCHANGED <<npConnection, npConnFreed, npMutex, npNotifier, npClientFreed, npFault,
                   npWire, npRx, npDevice, npCallbacks>>

(***************************************************************************)
(* iphone_np_notifier, lines 430-452                                       *)
(***************************************************************************)
\* line 438: while (npt->client->connection), then the call of line 439
nt_loop(t) ==
    /\ At(t, "nt_loop")
    /\ IF npConnection # NULL
       THEN /\ npLocal' = NpSet(t, [NpLocalInit EXCEPT
                                        !.op = "iphone_np_get_notification",
                                        !.client = npLocal[t].client,
                                        !.cb = npLocal[t].cb,
                                        !.notification = npLocal[t].notification,
                                        !.notifIn = npLocal[t].notification,
                                        !.returned = npLocal[t].returned,
                                        !.stream0 = npRx \o npDevice])
            /\ npPc' = NpGoto(t, "gn_check")
       ELSE /\ npPc' = NpGoto(t, "exited")
            /\ UNCHANGED npLocal
    /\ UNCHANGED <<npConnection, npConnFreed, npMutex, npNotifier, npClientFreed, npFault,
                   npWire, npRx, npDevice, npCallbacks, npCalls>>

\* lines 440-442 without lines 443-444: the notification is not cleared
nt_callback_keeps_notification(t) ==
    /\ At(t, "nt_callback")
    /\ IF npLocal[t].notification # NULL
       THEN npCallbacks' = Append(npCallbacks, [by |-> t, cb |-> npLocal[t].cb,
                                                notification |-> npLocal[t].notification])
       ELSE UNCHANGED npCallbacks
    /\ npPc' = NpGoto(t, "nt_loop")
    /\ UNCHANGED <<npConnection, npConnFreed, npMutex, npNotifier, npClientFreed, npFault,
                   npLocal, npWire, npRx, npDevice, npCalls>>

\* lines 440-445
nt_callback(t) ==
    /\ At(t, "nt_callback")
    /\ IF npLocal[t].notification # NULL
       THEN /\ npCallbacks' = Append(npCallbacks, [by |-> t, cb |-> npLocal[t].cb,
                                                   notification |-> npLocal[t].notification])
            /\ npLocal' = NpSet(t, [npLocal[t] EXCEPT !.notification = NULL])
       ELSE UNCHANGED <<npCallbacks, npLocal>>
    /\ npPc' = NpGoto(t, "nt_loop")
    /\ UNCHANGED <<npConnection, npConnFreed, npMutex, npNotifier, npClientFreed, npFault,
                   npWire, npRx, npDevice, npCalls>>

(***************************************************************************)
(* iphone_np_post_notification 214-243, iphone_np_observe_notification     *)
(* 250-271, np_plist_send 105-142                                          *)
(***************************************************************************)
\* lines 216-218 and 252-254
call_send(t, op, client, notification) ==
    /\ At(t, "idle")
    /\ NpClientLive
    /\ npCalls' = npCalls + 1
    /\ IF client = NULL \/ notification = NULL
       THEN /\ npLocal' = NpSet(t, [NpLocalInit EXCEPT !.op = op, !.client = client,
                                                       !.notification = notification,
                                                       !.call = npCalls + 1,
                                                       !.ret = "IPHONE_E_INVALID_ARG"])
            /\ UNCHANGED npPc
       ELSE /\ npLocal' = NpSet(t, [NpLocalInit EXCEPT !.op = op, !.client = client,
                                                       !.notification = notification,
                                                       !.call = npCalls + 1])
            /\ npPc' = NpGoto(t, "ps_lock")
    /\ UNCHANGED <<npConnection, npConnFreed, npMutex, npNotifier, npClientFreed, npFault,
                   npWire, npRx, npDevice, npCallbacks>>

\* lines 219-225 and 255-261: np_lock, then the first plist is built
ps_lock(t) ==
    /\ At(t, "ps_lock")
    /\ np_lock(t)
    /\ npMutex' = t
    /\ npLocal' = NpSet(t, [npLocal[t] EXCEPT
           !.locks = @ + 1,
           !.sent = 1,
           !.doc = IF npLocal[t].op = "iphone_np_post_notification"
                   THEN PostNotificationDict(npLocal[t].notification)
                   ELSE ObserveNotificationDict(npLocal[t].notification)])
    /\ npPc' = NpGoto(t, "ps_send_len")
    /\ UNCHANGED <<npConnection, npConnFreed, npNotifier, npClientFreed, npFault,
                   npWire, npRx, npDevice, npCallbacks, npCalls>>

\* what iphone_mux_send may report as sent for a buffer of n bytes
MuxSent(conn, n) == IF conn = NULL THEN {0} ELSE {0, 1, n}

WireEntry(t, part, data) ==
    [t |-> t, call |-> npLocal[t].call, send |-> npLocal[t].sent, part |-> part,
     data |-> data]

\* lines 117-125: the length is sent
ps_send_len(t) ==
    /\ At(t, "ps_send_len")
    /\ LET XML_content == plist_to_xml(npLocal[t].doc)
           nlen == HostStore32(Htonl(Len(XML_content)))
       IN  \E bytes \in MuxSent(npConnection, 4) :
             /\ npWire' = IF bytes > 0
                          THEN Append(npWire, WireEntry(t, "length", Take(nlen, bytes)))
                          ELSE npWire
             /\ npLocal' = NpSet(t, [npLocal[t] EXCEPT !.bytes = bytes,
                                                       !.res = "IPHONE_E_UNKNOWN_ERROR"])
             /\ npPc' = NpGoto(t, IF bytes = 4 THEN "ps_send_payload" ELSE "ps_sent")
    /\ UNCHANGED <<npConnection, npConnFreed, npMutex, npNotifier, npClientFreed, npFault,
                   npRx, npDevice, npCallbacks, npCalls>>

\* lines 126-134: the payload is sent
ps_send_payload(t) ==
    /\ At(t, "ps_send_payload")
    /\ LET XML_content == plist_to_xml(npLocal[t].doc)
       IN  \E bytes \in MuxSent(npConnection, Len(XML_content)) :
             /\ npWire' = IF bytes > 0
                          THEN Append(npWire, WireEntry(t, "payload", Take(XML_content, bytes)))
                          ELSE npWire
             /\ npLocal' = NpSet(t, [npLocal[t] EXCEPT
                    !.bytes = bytes,
                    !.res = IF bytes > 0 /\ bytes = Len(XML_content)
                            THEN "IPHONE_E_SUCCESS" ELSE "IPHONE_E_UNKNOWN_ERROR"])
             /\ npPc' = NpGoto(t, "ps_sent")
    /\ UNCHANGED <<npConnection, npConnFreed, npMutex, npNotifier, npClientFreed, npFault,
                   npRx, npDevice, npCallbacks, npCalls>>

\* np_plist_send returned: lines 228-234 send the Shutdown plist after the
\* PostNotification plist whatever the first result was
ps_sent(t) ==
    /\ At(t, "ps_sent")
    /\ IF npLocal[t].op = "iphone_np_post_notification" /\ npLocal[t].sent = 1
       THEN /\ npLocal' = NpSet(t, [npLocal[t] EXCEPT !.sent = 2, !.doc = ShutdownDict])
            /\ npPc' = NpGoto(t, "ps_send_len")
       ELSE /\ npPc' = NpGoto(t, "ps_unlock")
            /\ UNCHANGED npLocal
    /\ UNCHANGED <<npConnection, npConnFreed, npMutex, npNotifier, npClientFreed, npFault,
                   npWire, npRx, npDevice, npCallbacks, npCalls>>

\* lines 241-242 and 269-270
ps_unlock(t) ==
    /\ At(t, "ps_unlock")
    /\ npMutex' = NULL
    /\ npLocal' = NpSet(t, [npLocal[t] EXCEPT !.ret = npLocal[t].res])
    /\ npPc' = NpGoto(t, "idle")
    /\ UNCHANGED <<npConnection, npConnFreed, npNotifier, npClientFreed, npFault,
                   npWire, npRx, npDevice, npCallbacks, npCalls>>

(***************************************************************************)
(* iphone_np_set_notify_callback, lines 467-501                            *)
(***************************************************************************)
\* the notifier threads not created yet
Unborn == { n \in Notifiers : npPc[n] = "unborn" }

\* lines 469-472
call_set_notify_callback(t, client, notify_cb) ==
    /\ At(t, "idle")
    /\ NpClientLive
    /\ notify_cb # NULL => Unborn # {}
    /\ npCalls' = npCalls + 1
    /\ IF client = NULL
       THEN /\ npLocal' = NpSet(t, [NpLocalInit EXCEPT
                                        !.op = "iphone_np_set_notify_callback",
                                        !.client = client, !.cb = notify_cb,
                                        !.call = npCalls + 1,
                                        !.ret = "IPHONE_E_INVALID_ARG"])
            /\ UNCHANGED npPc
       ELSE /\ npLocal' = NpSet(t, [NpLocalInit EXCEPT
                                        !.op = "iphone_np_set_notify_callback",
                                        !.client = client, !.cb = notify_cb,
                                        !.call = npCalls + 1,
                                        !.connAtCall = npConnection,
                                        !.res = "IPHONE_E_UNKNOWN_ERROR"])
            /\ npPc' = NpGoto(t, "snc_lock")
    /\ UNCHANGED <<npConnection, npConnFreed, npMutex, npNotifier, npClientFreed, npFault,
                   npWire, npRx, npDevice, npCallbacks>>

\* lines 474-475
snc_lock(t) ==
    /\ At(t, "snc_lock")
    /\ np_lock(t)
    /\ npMutex' = t
    /\ npLocal' = NpSet(t, [npLocal[t] EXCEPT !.connAtLock = npConnection,
                                              !.locks = @ + 1])
    /\ npPc' = NpGoto(t, IF npNotifier # NULL THEN "snc_detach" ELSE "snc_create")
    /\ UNCHANGED <<npConnection, npConnFreed, npNotifier, npClientFreed, npFault,
                   npWire, npRx, npDevice, npCallbacks, npCalls>>

\* lines 477-478
snc_detach(t) ==
    /\ At(t, "snc_detach")
    /\ npLocal' = NpSet(t, [npLocal[t] EXCEPT !.conn = npConnection])
    /\ npConnection' = NULL
    /\ npPc' = NpGoto(t, "snc_join")
    /\ UNCHANGED <<npConnFreed, npMutex, npNotifier, npClientFreed, npFault,
                   npWire, npRx, npDevice, npCallbacks, npCalls>>

\* a join that does not wait for the thread
g_thread_join_no_wait(thread) == TRUE

\* g_thread_join returns once the joined thread has returned
g_thread_join(thread) == npPc[thread] = "exited"

\* lines 479-480 without line 481: the connection is not put back
snc_join_keeps_NULL(t) ==
    /\ At(t, "snc_join")
    /\ g_thread_join(npNotifier)
    /\ npNotifier' = NULL
    /\ npPc' = NpGoto(t, "snc_create")
    /\ UNCHANGED <<npConnection, npConnFreed, npMutex, npClientFreed, npFault,
                   npLocal, npWire, npRx, npDevice, npCallbacks, npCalls>>

\* lines 479-481
snc_join(t) ==
    /\ At(t, "snc_join")
    /\ g_thread_join(npNotifier)
    /\ npNotifier' = NULL
    /\ npConnection' = npLocal[t].conn
    /\ npPc' = NpGoto(t, "snc_create")
    /\ UNCHANGED <<npConnFreed, npMutex, npClientFreed, npFault,
                   npLocal, npWire, npRx, npDevice, npCallbacks, npCalls>>

\* lines 484-497; malloc or g_thread_create may fail, and then no thread is
\* started and res stays IPHONE_E_UNKNOWN_ERROR
snc_create(t) ==
    /\ At(t, "snc_create")
    /\ IF npLocal[t].cb # NULL
       THEN \/ \E n \in Unborn :
                /\ n = CHOOSE m \in Unborn : \A k \in Unborn : NotifierIndex(m) <= NotifierIndex(k)
                /\ npNotifier' = n
                /\ npPc' = [npPc EXCEPT ![t] = "snc_unlock", ![n] = "nt_loop"]
                /\ npLocal' = [npLocal EXCEPT
                       ![t] = [@ EXCEPT !.res = "IPHONE_E_SUCCESS", !.created = n],
                       ![n] = [NpLocalInit EXCEPT !.op = "iphone_np_notifier",
                                                  !.client = npLocal[t].client,
                                                  !.cb = npLocal[t].cb]]
            \/ /\ npPc' = NpGoto(t, "snc_unlock")
               /\ UNCHANGED <<npNotifier, npLocal>>
       ELSE /\ npPc' = NpGoto(t, "snc_unlock")
            /\ UNCHANGED <<npNotifier, npLocal>>
    /\ UNCHANGED <<npConnection, npConnFreed, npMutex, npClientFreed, npFault,
                   npWire, npRx, npDevice, npCallbacks, npCalls>>

\* lines 498-500
snc_unlock(t) ==
    /\ At(t, "snc_unlock")
    /\ npMutex' = NULL
    /\ npLocal' = NpSet(t, [npLocal[t] EXCEPT !.ret = npLocal[t].res])
    /\ npPc' = NpGoto(t, "idle")
    /\ UNCHANGED <<npConnection, npConnFreed, npNotifier, npClientFreed, npFault,
                   npWire, npRx, npDevice, npCallbacks, npCalls>>

(***************************************************************************)
(* iphone_np_free_client, lines 184-203                                    *)
(***************************************************************************)
\* lines 186-189; the application frees the client once, from one thread,
\* when no other application call is in progress
call_free_client(t, client) ==
    /\ At(t, "idle")
    /\ NpClientLive
    /\ \A u \in Apps \ {t} : npPc[u] = "idle"
    /\ npCalls' = npCalls + 1
    /\ IF client = NULL
       THEN /\ npLocal' = NpSet(t, [NpLocalInit EXCEPT !.op = "iphone_np_free_client",
                                                       !.client = client,
                                                       !.call = npCalls + 1,
                                                       !.ret = "IPHONE_E_INVALID_ARG"])
            /\ UNCHANGED npPc
       ELSE /\ npLocal' = NpSet(t, [NpLocalInit EXCEPT !.op = "iphone_np_free_client",
                                                       !.client = client,
                                                       !.call = npCalls + 1])
            /\ npPc' = NpGoto(t, IF npConnection # NULL THEN "fc_mux_free" ELSE "fc_free")
    /\ UNCHANGED <<npConnection, npConnFreed, npMutex, npNotifier, npClientFreed, npFault,
                   npWire, npRx, npDevice, npCallbacks>>

\* line 190
fc_mux_free(t) ==
    /\ At(t, "fc_mux_free")
    /\ npConnFreed' = TRUE
    /\ npPc' = NpGoto(t, "fc_clear")
    /\ UNCHANGED <<npConnection, npMutex, npNotifier, npClientFreed, npFault,
                   npLocal, npWire, npRx, npDevice, npCallbacks, npCalls>>

\* lines 191-192
fc_clear(t) ==
    /\ At(t, "fc_clear")
    /\ npConnection' = NULL
    /\ npPc' = NpGoto(t, IF npNotifier # NULL THEN "fc_join" ELSE "fc_free")
    /\ UNCHANGED <<npConnFreed, npMutex, npNotifier, npClientFreed, npFault,
                   npLocal, npWire, npRx, npDevice, npCallbacks, npCalls>>

\* line 194
fc_join(t) ==
    /\ At(t, "fc_join")
    /\ g_thread_join(npNotifier)
    /\ npPc' = NpGoto(t, "fc_free")
    /\ UNCHANGED <<npConnection, npConnFreed, npMutex, npNotifier, npClientFreed, npFault,
                   npLocal, npWire, npRx, npDevice, npCallbacks, npCalls>>

\* lines 197-202
fc_free(t) ==
    /\ At(t, "fc_free")
    /\ npClientFreed' = TRUE
    /\ npLocal' = NpSet(t, [npLocal[t] EXCEPT !.ret = "IPHONE_E_SUCCESS"])
    /\ npPc' = NpGoto(t, "idle")
    /\ UNCHANGED <<npConnection, npConnFreed, npMutex, npNotifier, npFault,
                   npWire, npRx, npDevice, npCallbacks, npCalls>>

(***************************************************************************)
(*                    MobileSync.c : mobilesync_recv                       *)
(***************************************************************************)
VARIABLES
    msConnection,   \* client->connection: "open", or "closed"
    msPc,           \* position of the calling thread
    msLocal,        \* arguments and local variables of mobilesync_recv
    msPlist,        \* *plist
    msRx,           \* bytes received from the device and not yet read
    msDevice,       \* bytes the device has still to deliver
    msCalls,        \* calls made so far
    msOther,        \* position, locals and *plist of the thread that is not running
    msReads         \* each iphone_device_recv made on the connection: its call, its bytes

msVars == <<msConnection, msPc, msLocal, msPlist, msRx, msDevice, msCalls, msOther, msReads>>

MaxMsCalls == 2        \* calls of mobilesync_recv

\* a binary plist: byte 98, the nodes, byte 116
plist_to_bin(array) == <<98>> \o [i \in 1..Len(array) |-> NodeByte(array[i])] \o <<116>>

\* plist_from_bin(content, length): the plist, or none when the bytes are not
\* one complete binary plist
plist_from_bin(content, length) ==
    LET b == Take(content, length)
        n == Len(b)
    IN  IF /\ n >= 2
           /\ b[1] = 98
           /\ b[n] = 116
           /\ \A i \in 2..(n - 1) : b[i] \in 101..(100 + Len(PlistNodes))
        THEN [ok |-> TRUE, nodes |-> [i \in 1..(n - 2) |-> PlistNodes[b[i + 1] - 100]]]
        ELSE NoDict

\* error codes are integers: every *_E_SUCCESS is 0
IsSuccess(code) == code \in {"IPHONE_E_SUCCESS", "MOBILESYNC_E_SUCCESS"}

\* iphone_device_recv(connection, data, len, &recv_bytes): blocks until bytes
\* are buffered and returns at most len of them; fails when none arrive
iphone_device_recv(rx, len) ==
    IF rx # << >>
    THEN [ret |-> "IPHONE_E_SUCCESS", data |-> Take(rx, len)]
    ELSE [ret |-> "IPHONE_E_UNKNOWN_ERROR", data |-> << >>]

MsLocalInit ==
    [client |-> NULL, plistIn |-> NoDict, datalen |-> 0, bytes |-> 0, receive |-> << >>,
     received_bytes |-> 0, ret |-> "MOBILESYNC_E_UNKNOWN_ERROR", result |-> "none",
     stream0 |-> << >>, call |-> 0]

\* lines 661-667
mobilesync_recv(client, plist) ==
    /\ msPc = "idle"
    /\ msCalls' = msCalls + 1
    /\ msPlist' = plist
    /\ IF client = NULL \/ plist.ok
       THEN /\ msLocal' = [MsLocalInit EXCEPT !.client = client, !.plistIn = plist,
                                              !.stream0 = msRx \o msDevice,
                                              !.call = msCalls + 1,
                                              !.result = "MOBILESYNC_E_INVALID_ARG"]
            /\ UNCHANGED msPc
       ELSE /\ msLocal' = [MsLocalInit EXCEPT !.client = client, !.plistIn = plist,
                                              !.stream0 = msRx \o msDevice,
                                              !.call = msCalls + 1]
            /\ msPc' = "ms_recv_len"
    /\ UNCHANGED <<msConnection, msRx, msDevice, msOther, msReads>>

\* lines 669-672: the first receive; its byte count is not looked at
ms_recv_len ==
    /\ msPc = "ms_recv_len"
    /\ LET got == iphone_device_recv(msRx, 4)
           datalen == Overwrite(HostStore32(0), got.data)
       IN  /\ msRx' = Drop(msRx, Len(got.data))
           /\ msLocal' = [msLocal EXCEPT !.ret = got.ret,
                                         !.bytes = Len(got.data),
                                         !.datalen = Ntohl(HostLoad32(datalen))]
    /\ msPc' = "ms_loop"
    /\ msReads' = Append(msReads, [call |-> msLocal.call, bytes |-> Len(msRx) - Len(msRx')])
    /\ UNCHANGED <<msConnection, msPlist, msDevice, msCalls, msOther>>

\* a loop that goes on after a failed receive until datalen bytes are there
MsLoopUntilFull(received_bytes, datalen, ret) == received_bytes < datalen

\* line 675
MsLoop(received_bytes, datalen, ret) == received_bytes < datalen /\ IsSuccess(ret)

\* lines 675-678: one turn of the loop
ms_recv_payload ==
    /\ msPc = "ms_loop"
    /\ MsLoop(msLocal.received_bytes, msLocal.datalen, msLocal.ret)
    /\ LET got == iphone_device_recv(msRx, msLocal.datalen - msLocal.received_bytes)
       IN  /\ msRx' = Drop(msRx, Len(got.data))
           /\ msLocal' = [msLocal EXCEPT !.ret = got.ret,
                                         !.bytes = Len(got.data),
                                         !.receive = @ \o got.data,
                                         !.received_bytes = @ + Len(got.data)]
    /\ msReads' = Append(msReads, [call |-> msLocal.call, bytes |-> Len(msRx) - Len(msRx')])
    /\ UNCHANGED <<msConnection, msPc, msPlist, msDevice, msCalls, msOther>>

\* lines 680-694: the value returned
MsFinish(ret, plist) ==
    IF ~IsSuccess(ret) THEN "MOBILESYNC_E_MUX_ERROR" ELSE "MOBILESYNC_E_SUCCESS"

\* lines 680-694
ms_finish ==
    /\ msPc = "ms_loop"
    /\ ~MsLoop(msLocal.received_bytes, msLocal.datalen, msLocal.ret)
    /\ LET plist == plist_from_bin(msLocal.receive, msLocal.received_bytes)
       IN  /\ msPlist' = IF IsSuccess(msLocal.ret) THEN plist ELSE msPlist
           /\ msLocal' = [msLocal EXCEPT !.result = MsFinish(msLocal.ret, plist)]
    /\ msPc' = "idle"
    /\ UNCHANGED <<msConnection, msRx, msDevice, msCalls, msOther, msReads>>

\* the device delivers the next k bytes of what it has to send
MsDeviceDeliver(k) ==
    /\ k \in 1..Len(msDevice)
    /\ msRx' = msRx \o Take(msDevice, k)
    /\ msDevice' = Drop(msDevice, k)
    /\ UNCHANGED <<msConnection, msPc, msLocal, msPlist, msCalls, msOther, msReads>>

\* a thread's position, locals and *plist
MsContext(pc, local, plist) == [pc |-> pc, local |-> local, plist |-> plist]

\* the scheduler runs the other thread of the application: nothing in
\* mobilesync_recv (lines 661-695) or in the client (MobileSync.h: connection
\* only) keeps a second caller out
MsYield ==
    /\ msOther' = MsContext(msPc, msLocal, msPlist)
    /\ msPc' = msOther.pc
    /\ msLocal' = msOther.local
    /\ msPlist' = msOther.plist
    /\ UNCHANGED <<msConnection, msRx, msDevice, msCalls, msReads>>

(***************************************************************************)
(*                 AFC.c : one client used by several threads              *)
(***************************************************************************)
VARIABLES
    afcMutex,       \* client->mutex: the thread holding it, or NULL
    afcPacket,      \* client->afc_packet
    afcPc,          \* position of every thread
    afcLocal,       \* arguments and local variables of every thread
    afcLog,         \* the requests sent and responses read on the connection, in order
    afcCalls        \* calls made so far

afcVars == <<afcMutex, afcPacket, afcPc, afcLocal, afcLog, afcCalls>>

MaxAfcCalls == 2       \* AFC operations called in all

SizeofAFCPacket == 40

MAXIMUM_READ_SIZE == 2 ^ 16

MAXIMUM_WRITE_SIZE == 2 ^ 15

AfcLocalInit ==
    [op |-> "none", call |-> 0, length |-> 0, current_count |-> 0, i |-> 0,
     segments |-> 0, bytes_loc |-> 0, ret |-> "none", result |-> "none", locks |-> 0,
     size |-> 0, bytes |-> 0, bytes_set |-> FALSE]

AfcSet(t, r) == [afcLocal EXCEPT ![t] = r]

AfcGoto(t, pc) == [afcPc EXCEPT ![t] = pc]

\* afc_lock, lines 351-355: g_mutex_lock blocks while another thread holds the mutex
afc_lock_free_for_all(t) == TRUE

afc_lock(t) == afcMutex = NULL

\* what iphone_device_send may report as sent for n bytes
DeviceSent(n) == {0, n}

\* afc_dispatch_packet, lines 444-523: the packet header as it is sent and the
\* values the call may return
afc_dispatch_packet(packet, length) ==
    LET numbered == [packet EXCEPT !.packet_num = @ + 1]
        sized == IF numbered.entire_length = 0
                 THEN [numbered EXCEPT !.entire_length = SizeofAFCPacket + length,
                                       !.this_length = SizeofAFCPacket + length]
                 ELSE numbered
        p == IF sized.this_length = 0
             THEN [sized EXCEPT !.this_length = SizeofAFCPacket] ELSE sized
        offset == p.this_length - SizeofAFCPacket
    IN  [ packet |-> p,
          bytes |->
            IF p.this_length # p.entire_length
            THEN IF length < p.entire_length - p.this_length
                 THEN {-1}
                 ELSE {0} \cup { SizeofAFCPacket : sent \in DeviceSent(offset) \ {offset} }
                          \cup DeviceSent(length - offset)
            ELSE {0} \cup { SizeofAFCPacket + sent :
                            sent \in IF length > 0 THEN DeviceSent(length) ELSE {0} } ]

\* afc_receive_data, lines 535-672: the result and the byte count it may give
\* for a response of at most `size` bytes of data
afc_receive_data(size) ==
    { [ret |-> "AFC_E_MUX_ERROR", bytes |-> 0],
      [ret |-> "AFC_E_SUCCESS", bytes |-> 0],
      [ret |-> "AFC_E_SUCCESS", bytes |-> size] }

\* afc_receive_data for the response to AFC_OP_READ when `size` bytes were
\* asked for: the count is the one the header of the response announces
\* (lines 589, 670), which may be a full block whatever was asked for
afc_receive_file_data(size) ==
    afc_receive_data(size) \cup { [ret |-> "AFC_E_SUCCESS", bytes |-> MAXIMUM_READ_SIZE] }

\* size is what the packet carries after its parameters
AfcEvent(t, ev, packet) ==
    [t |-> t, call |-> afcLocal[t].call, ev |-> ev, packet_num |-> packet.packet_num,
     size |-> packet.entire_length - packet.this_length]

\* the argument checks that open every operation (719, 1068, 1145)
afc_call(t, op, valid, length) ==
    /\ afcPc[t] = "idle"
    /\ afcCalls' = afcCalls + 1
    /\ IF ~valid \/ length < 0
       THEN /\ afcLocal' = AfcSet(t, [AfcLocalInit EXCEPT
                                          !.op = op, !.call = afcCalls + 1,
                                          !.length = length,
                                          !.result = "AFC_E_INVALID_ARGUMENT"])
            /\ UNCHANGED afcPc
       ELSE /\ afcLocal' = AfcSet(t, [AfcLocalInit EXCEPT
                                          !.op = op, !.call = afcCalls + 1,
                                          !.length = length,
                                          !.segments = length \div MAXIMUM_WRITE_SIZE,
                                          !.ret = IF op \in {"afc_read_directory",
                                                               "afc_file_open"}
                                                  THEN "AFC_E_UNKNOWN_ERROR"
                                                  ELSE "AFC_E_SUCCESS"])
            /\ afcPc' = AfcGoto(t, "lock")
    /\ UNCHANGED <<afcMutex, afcPacket, afcLog>>

\* lines 722, 1016, 1072, 1148
afc_op_lock(t) ==
    /\ afcPc[t] = "lock"
    /\ afc_lock(t)
    /\ afcMutex' = t
    /\ afcLocal' = AfcSet(t, [afcLocal[t] EXCEPT !.locks = @ + 1])
    /\ afcPc' = AfcGoto(t, CASE afcLocal[t].op = "afc_read_directory" -> "rd_dispatch"
                             [] afcLocal[t].op = "afc_file_open" -> "rd_dispatch"
                             [] afcLocal[t].op = "afc_file_read" -> "fr_loop"
                             [] OTHER -> "fw_segment")
    /\ UNCHANGED <<afcPacket, afcLog, afcCalls>>

\* a return that calls afc_unlock only when the operation succeeded
afc_op_unlock_on_success(t) ==
    /\ afcPc[t] = "unlock"
    /\ afcMutex' = IF afcLocal[t].ret = "AFC_E_SUCCESS" THEN NULL ELSE afcMutex
    /\ afcLocal' = AfcSet(t, [afcLocal[t] EXCEPT !.result = afcLocal[t].ret])
    /\ afcPc' = AfcGoto(t, "idle")
    /\ UNCHANGED <<afcPacket, afcLog, afcCalls>>

\* afc_unlock and return (730, 736, 744, 1030, 1036, 1046, 1089, 1097, 1102,
\* 1118, 1163, 1172, 1184, 1202, 1209)
afc_op_unlock(t) ==
    /\ afcPc[t] = "unlock"
    /\ afcMutex' = NULL
    /\ afcLocal' = AfcSet(t, [afcLocal[t] EXCEPT !.result = afcLocal[t].ret])
    /\ afcPc' = AfcGoto(t, "idle")
    /\ UNCHANGED <<afcPacket, afcLog, afcCalls>>

\* a call of afc_dispatch_packet after the operation has set the header fields
AfcDispatched(operation, entire_length, this_length, length) ==
    afc_dispatch_packet([afcPacket EXCEPT !.operation = operation,
                                          !.entire_length = entire_length,
                                          !.this_length = this_length], length)

\* the request d of thread t has gone out; t goes on at pc with its locals
AfcSent(t, d, pc, local) ==
    /\ afcPacket' = d.packet
    /\ afcLog' = Append(afcLog, AfcEvent(t, "request", d.packet))
    /\ afcLocal' = AfcSet(t, local)
    /\ afcPc' = AfcGoto(t, pc)
    /\ UNCHANGED <<afcMutex, afcCalls>>

\* ---- afc_read_directory, lines 713-748, and afc_file_open, lines 1001-1049
\* (and the operations of one request and one response written like them)
AfcOperation(op) == IF op = "afc_file_open" THEN "AFC_OP_FILE_OPEN" ELSE "AFC_OP_READ_DIR"

rd_dispatch(t) ==
    /\ afcPc[t] = "rd_dispatch"
    /\ LET d == AfcDispatched(AfcOperation(afcLocal[t].op), 0, 0, afcLocal[t].length)
       IN  \E bytes \in d.bytes :
             IF bytes <= 0
             THEN AfcSent(t, d, "unlock", [afcLocal[t] EXCEPT !.bytes_loc = bytes,
                                                             !.ret = "AFC_E_NOT_ENOUGH_DATA"])
             ELSE AfcSent(t, d, "rd_receive", [afcLocal[t] EXCEPT !.bytes_loc = bytes])

rd_receive(t) ==
    /\ afcPc[t] = "rd_receive"
    /\ \E r \in afc_receive_data(8) :
          afcLocal' = AfcSet(t, [afcLocal[t] EXCEPT !.ret = r.ret, !.bytes_loc = r.bytes])
    /\ afcLog' = Append(afcLog, AfcEvent(t, "response", afcPacket))
    /\ afcPc' = AfcGoto(t, "unlock")
    /\ UNCHANGED <<afcMutex, afcPacket, afcCalls>>

\* ---- afc_file_read, lines 1060-1121
SizeofAFCFilePacket == 16

\* lines 1076-1091, and 1117-1120 when the loop ends
fr_loop(t) ==
    /\ afcPc[t] = "fr_loop"
    /\ IF afcLocal[t].current_count < afcLocal[t].length
       THEN LET d == AfcDispatched("AFC_OP_READ", 0, 0, SizeofAFCFilePacket)
            IN  \E bytes \in d.bytes :
                  IF bytes <= 0
                  THEN AfcSent(t, d, "unlock",
                               [afcLocal[t] EXCEPT !.bytes_loc = bytes,
                                                   !.ret = "AFC_E_NOT_ENOUGH_DATA"])
                  ELSE AfcSent(t, d, "fr_receive",
                               [afcLocal[t] EXCEPT
                                   !.bytes_loc = bytes,
                                   !.size = Min(afcLocal[t].length - afcLocal[t].current_count,
                                                MAXIMUM_READ_SIZE)])
       ELSE /\ afcPc' = AfcGoto(t, "unlock")
            /\ afcLocal' = AfcSet(t, [afcLocal[t] EXCEPT !.bytes = afcLocal[t].current_count,
                                                         !.bytes_set = TRUE])
            /\ UNCHANGED <<afcMutex, afcPacket, afcLog, afcCalls>>

\* lines 1093-1115
fr_receive(t) ==
    /\ afcPc[t] = "fr_receive"
    /\ LET l == afcLocal[t]
       IN  \E r \in afc_receive_file_data(l.size) :
             IF r.ret # "AFC_E_SUCCESS"
             THEN /\ afcLocal' = AfcSet(t, [l EXCEPT !.ret = r.ret, !.bytes_loc = r.bytes])
                  /\ afcPc' = AfcGoto(t, "unlock")
             ELSE IF r.bytes = 0
             THEN /\ afcLocal' = AfcSet(t, [l EXCEPT !.ret = r.ret, !.bytes_loc = r.bytes,
                                                     !.bytes = l.current_count,
                                                     !.bytes_set = TRUE])
                  /\ afcPc' = AfcGoto(t, "unlock")
             ELSE /\ afcLocal' = AfcSet(t, [l EXCEPT
                         !.ret = r.ret, !.bytes_loc = r.bytes,
                         !.current_count = @ + (IF r.bytes > l.length THEN l.length
                                                ELSE r.bytes)])
                  /\ afcPc' = AfcGoto(t, "fr_loop")
    /\ afcLog' = Append(afcLog, AfcEvent(t, "response", afcPacket))
    /\ UNCHANGED <<afcMutex, afcPacket, afcCalls>>

\* ---- afc_file_write, lines 1133-1217
\* lines 1153-1168: one segment is sent
fw_segment(t) ==
    /\ afcPc[t] = "fw_segment"
    /\ afcLocal[t].i < afcLocal[t].segments
    /\ LET d == AfcDispatched("AFC_OP_WRITE", SizeofAFCPacket + 8 + MAXIMUM_WRITE_SIZE,
                              SizeofAFCPacket + 8, MAXIMUM_WRITE_SIZE + 8)
       IN  \E bytes \in d.bytes :
             IF bytes < 0
             THEN AfcSent(t, d, "unlock", [afcLocal[t] EXCEPT !.bytes_loc = bytes,
                                                             !.ret = "AFC_E_NOT_ENOUGH_DATA"])
             ELSE AfcSent(t, d, "fw_segment_receive",
                          [afcLocal[t] EXCEPT !.bytes_loc = bytes,
                                              !.current_count = @ + bytes])

\* lines 1170-1176, and the i++ of line 1153
fw_segment_receive(t) ==
    /\ afcPc[t] = "fw_segment_receive"
    /\ \E r \in afc_receive_data(8) :
          IF r.ret # "AFC_E_SUCCESS"
          THEN /\ afcLocal' = AfcSet(t, [afcLocal[t] EXCEPT !.ret = r.ret,
                                                            !.bytes_loc = r.bytes])
               /\ afcPc' = AfcGoto(t, "unlock")
          ELSE /\ afcLocal' = AfcSet(t, [afcLocal[t] EXCEPT !.ret = r.ret,
                                                            !.bytes_loc = r.bytes,
                                                            !.i = @ + 1])
               /\ afcPc' = AfcGoto(t, "fw_segment")
    /\ afcLog' = Append(afcLog, AfcEvent(t, "response", afcPacket))
    /\ UNCHANGED <<afcMutex, afcPacket, afcCalls>>

\* lines 1183-1205: what the segments left over is sent (every segment adds
\* at most MAXIMUM_WRITE_SIZE to current_count, so it does not exceed length
\* here and the unsigned subtraction does not wrap)
fw_rest(t) ==
    /\ afcPc[t] = "fw_segment"
    /\ ~(afcLocal[t].i < afcLocal[t].segments)
    /\ IF afcLocal[t].current_count = (afcLocal[t].length)
       THEN /\ afcPc' = AfcGoto(t, "unlock")
            /\ afcLocal' = AfcSet(t, [afcLocal[t] EXCEPT !.bytes = afcLocal[t].current_count,
                                                         !.bytes_set = TRUE])
            /\ UNCHANGED <<afcMutex, afcPacket, afcLog, afcCalls>>
       ELSE LET rest == afcLocal[t].length - afcLocal[t].current_count
                d == AfcDispatched("AFC_OP_WRITE", SizeofAFCPacket + 8 + rest,
                                   SizeofAFCPacket + 8, rest + 8)
            IN  \E bytes \in d.bytes :
                  IF bytes <= 0
                  THEN AfcSent(t, d, "unlock",
                               [afcLocal[t] EXCEPT !.bytes_loc = bytes,
                                                   !.current_count = @ + bytes,
                                                   !.bytes = afcLocal[t].current_count + bytes,
                                                   !.bytes_set = TRUE,
                                                   !.ret = "AFC_E_SUCCESS"])
                  ELSE AfcSent(t, d, "fw_rest_receive",
                               [afcLocal[t] EXCEPT !.bytes_loc = bytes,
                                                   !.current_count = @ + bytes])

\* lines 1207-1216
fw_rest_receive(t) ==
    /\ afcPc[t] = "fw_rest_receive"
    /\ \E r \in afc_receive_data(8) :
          afcLocal' = AfcSet(t, [afcLocal[t] EXCEPT !.ret = r.ret, !.bytes_loc = r.bytes,
                                                    !.bytes = afcLocal[t].current_count,
                                                    !.bytes_set = TRUE])
    /\ afcLog' = Append(afcLog, AfcEvent(t, "response", afcPacket))
    /\ afcPc' = AfcGoto(t, "unlock")
    /\ UNCHANGED <<afcMutex, afcPacket, afcCalls>>

(***************************************************************************)
(*     AFC.c : the packet numbers and the header check of a response       *)
(***************************************************************************)
VARIABLES
    afcIo           \* the afc_dispatch_packet calls made on the client and the
                    \* last afc_receive_data: its response and what it gave

arVars == <<afcIo>>

MaxDispatches == 3     \* calls of afc_dispatch_packet on the client

AFC_MAGIC == "CFA6LPAA"

\* a response of the device: hbytes is what the read of the header returns,
\* dbytes what the reads of the data return, one after the other (a read
\* after the last of them returns nothing)
AfcResponse(hbytes, magic, packet_num, lengths, operation, param1, dbytes) ==
    [hbytes |-> hbytes, magic |-> magic, packet_num |-> packet_num,
     this_length |-> lengths[1], entire_length |-> lengths[2],
     operation |-> operation, param1 |-> param1, dbytes |-> dbytes]

\* what afc_receive_data gave; buffer is the size of the buffer it allocated
\* and stored the number of bytes its reads put there
AfcReceived(ret, bytes, dump_here) ==
    [ret |-> ret, bytes |-> bytes, dump_here |-> dump_here, buffer |-> 0, stored |-> 0]

\* iphone_device_recv: the k-th read of the data, asked for `asked` bytes
AfcDataRead(dbytes, k, asked) == IF k <= Len(dbytes) THEN Min(dbytes[k], asked) ELSE 0

RECURSIVE AfcReadRest(_, _, _, _)
\* lines 614-622: the loop that reads what the first read left of the packet;
\* it ends when all is there or a read returns nothing
AfcReadRest(dbytes, k, current_count, entire_len) ==
    IF current_count >= entire_len
    THEN [current_count |-> current_count, reads |-> k - 1]
    ELSE LET bytes == AfcDataRead(dbytes, k, entire_len - current_count)
         IN  IF bytes <= 0
             THEN [current_count |-> current_count, reads |-> k]
             ELSE AfcReadRest(dbytes, k + 1, current_count + bytes, entire_len)

\* lines 589-671: the data of the response is read and the operation checked
AfcReceiveBody(r) ==
    LET entire_len == r.entire_length - SizeofAFCPacket
        this_len == r.this_length - SizeofAFCPacket
        first == AfcDataRead(r.dbytes, 1, this_len)
        rest == IF entire_len > this_len
                THEN AfcReadRest(r.dbytes, IF this_len > 0 THEN 2 ELSE 1, this_len, entire_len)
                ELSE [current_count |-> this_len, reads |-> IF this_len > 0 THEN 1 ELSE 0]
        current_count == rest.current_count
        \* the value the last read left in *bytes
        bytes == IF rest.reads = 0 THEN r.hbytes
                 ELSE IF rest.reads = 1 /\ this_len > 0 THEN first
                 ELSE AfcDataRead(r.dbytes, rest.reads, entire_len)
        param1 == IF current_count >= 8 THEN r.param1 ELSE -1
        measured(got, n) == [got EXCEPT !.buffer = entire_len, !.stored = n]
    IN  IF this_len > 0 /\ first < this_len
        THEN measured(AfcReceived("AFC_E_NOT_ENOUGH_DATA", first, NULL), first)
        ELSE IF r.operation = "AFC_OP_STATUS" /\ param1 # 0
        THEN measured(AfcReceived(IF param1 = -1 THEN "afc_error_t(-1)"
                                  ELSE "AFC_E_OBJECT_NOT_FOUND", bytes, NULL),
                      current_count)
        ELSE IF r.operation \in {"AFC_OP_STATUS", "AFC_OP_DATA", "AFC_OP_FILE_OPEN_RES",
                                 "AFC_OP_FILE_TELL_RES"}
        THEN measured(AfcReceived("AFC_E_SUCCESS", current_count, "data"), current_count)
        ELSE measured(AfcReceived("AFC_E_OP_NOT_SUPPORTED", 0, NULL), current_count)

\* afc_receive_data, lines 535-672, for the response r on a client whose
\* afc_packet has this packet_num
afc_receive_any_number(r, packet_num) ==
    IF r.hbytes < SizeofAFCPacket
    THEN AfcReceived("AFC_E_MUX_ERROR", r.hbytes, NULL)
    ELSE IF r.this_length < SizeofAFCPacket
    THEN AfcReceived("AFC_E_OP_HEADER_INVALID", r.hbytes, NULL)
    ELSE IF r.this_length = r.entire_length /\ r.entire_length = SizeofAFCPacket
    THEN AfcReceived(IF r.operation = "AFC_OP_DATA" THEN "AFC_E_SUCCESS" ELSE "AFC_E_IO_ERROR",
                     0, NULL)
    ELSE AfcReceiveBody(r)

afc_receive_response(r, packet_num) ==
    IF r.hbytes < SizeofAFCPacket
    THEN AfcReceived("AFC_E_MUX_ERROR", r.hbytes, NULL)
    ELSE IF r.packet_num # packet_num
    THEN AfcReceived("AFC_E_OP_HEADER_INVALID", r.hbytes, NULL)
    ELSE IF r.this_length < SizeofAFCPacket
    THEN AfcReceived("AFC_E_OP_HEADER_INVALID", r.hbytes, NULL)
    ELSE IF r.this_length = r.entire_length /\ r.entire_length = SizeofAFCPacket
    THEN AfcReceived(IF r.operation = "AFC_OP_DATA" THEN "AFC_E_SUCCESS" ELSE "AFC_E_IO_ERROR",
                     0, NULL)
    ELSE AfcReceiveBody(r)

\* afc_client_new, line 401, and no response read yet
AfcIoNone ==
    [dispatches |-> 0,
     response |-> AfcResponse(0, "none", 0, <<0, 0>>, "none", 0, << >>),
     received |-> AfcReceived("none", 0, NULL)]

\* an operation sets the header fields and calls afc_dispatch_packet
ar_dispatch(lengths, length) ==
    /\ afcPacket' = afc_dispatch_packet([afcPacket EXCEPT !.operation = "AFC_OP_WRITE",
                                                          !.entire_length = lengths[2],
                                                          !.this_length = lengths[1]],
                                        length).packet
    /\ afcIo' = [AfcIoNone EXCEPT !.dispatches = afcIo.dispatches + 1]

\* what a call of afc_receive_data may end in: what the code computes, or,
\* when its reads wrote past the buffer it allocated, a fault of the process
AfcOutcomes(r, packet_num) ==
    LET got == afc_receive_response(r, packet_num)
    IN  IF got.stored > got.buffer
        THEN {got, [got EXCEPT !.ret = "fault", !.bytes = 0, !.dump_here = NULL]}
        ELSE {got}

\* the operation calls afc_receive_data for its request and the device
\* answers with r
ar_receive(r) ==
    /\ afcIo.dispatches > 0
    /\ afcIo.received.ret = "none"
    /\ \E got \in AfcOutcomes(r, afcPacket.packet_num) :
          afcIo' = [afcIo EXCEPT !.response = r, !.received = got]
    /\ UNCHANGED afcPacket

(***************************************************************************)
(*        The mux transport: logical connections over the USB pipe         *)
(***************************************************************************)
VARIABLES
    muxNextPort,    \* next_source_port of the transport
    muxConns,       \* the connections made, in order of creation
    muxCount,       \* per connection, the payload bytes the pipe took in whole
                    \* packets and the payload bytes accepted from the peer
    muxWire,        \* the bulk writes made, in order
    muxLast         \* the last call or device event: [n, op, conn, ret, sent]

muxVars == <<muxNextPort, muxConns, muxCount, muxWire, muxLast>>

MaxConns == 2          \* connections made in all
MaxMuxCalls == 2       \* calls of the connection API in all

SizeofMuxHeader == 28

FirstSourcePort == 4660      \* 0x1234

\* a uint32_t as its two 16-bit halves
U32Zero == [hi |-> 0, lo |-> 0]

U32Add(x, n) ==
    [hi |-> (x.hi + (x.lo + n) \div 65536) % 65536, lo |-> (x.lo + n) % 65536]

\* a byte count without a width, in the same form
CountAdd(x, n) ==
    [hi |-> x.hi + (x.lo + n) \div 65536, lo |-> (x.lo + n) % 65536]

\* send_to_phone, lines 263-284; bytes is what usb_bulk_write returns
send_to_phone_as_written(phone, datalen, bytes) ==
    IF phone = NULL THEN -1 ELSE bytes

send_to_phone_unchecked(phone, datalen, bytes) ==
    IF phone = NULL THEN -1 ELSE datalen

send_to_phone_no_error(phone, datalen, bytes) ==
    IF phone = NULL
    THEN -1
    ELSE IF bytes < 0 THEN -1 ELSE bytes

send_to_phone(phone, datalen, bytes) ==
    IF phone = NULL
    THEN -1
    ELSE IF bytes < datalen THEN -1 ELSE bytes

\* what usb_bulk_write may return for datalen bytes
BulkWritten(datalen) == {-1, datalen - 1, datalen}

MuxConn(source_port, dest_port) ==
    [source_port |-> source_port, dest_port |-> dest_port, seq |-> U32Zero,
     ack |-> U32Zero, state |-> "Connecting", live |-> TRUE, rx |-> 0, peer |-> 3]

MuxState == [conns |-> muxConns, count |-> muxCount, wire |-> muxWire]

\* one packet of connection c handed to send_to_phone
MuxPacket(m, c, flags, payload, bytes) ==
    [conn |-> c, flags |-> flags, seq |-> m.conns[c].seq, ack |-> m.conns[c].ack,
     payload |-> payload, datalen |-> SizeofMuxHeader + payload, written |-> bytes,
     ret |-> send_to_phone("phone", SizeofMuxHeader + payload, bytes)]

\* the connection can be used by its owner: connect has returned it
MuxUsable(m, c) == m.conns[c].live /\ m.conns[c].state # "Connecting"

\* send of n payload bytes on connection c; bytes is what the bulk write returns
MuxSendOn(m, c, n, bytes) ==
    LET pkt == MuxPacket(m, c, "ACK", n, bytes)
    IN  IF m.conns[c].state # "Open"
        THEN [m |-> m, ret |-> "MuxError", sent |-> 0]
        ELSE IF pkt.ret < 0
        THEN [m |-> [m EXCEPT !.conns[c].state = "Closed", !.wire = Append(@, pkt)],
              ret |-> "MuxError", sent |-> 0]
        ELSE [m |-> [m EXCEPT !.conns[c].seq = U32Add(@, n),
                              !.count[c].sent =
                                  CountAdd(@, IF bytes >= pkt.datalen THEN n ELSE 0),
                              !.wire = Append(@, pkt)],
              ret |-> "Success", sent |-> n]

\* a packet without payload (SYN, FIN, RST, pure ACK) of connection c
MuxControlOn(m, c, flags, state, bytes) ==
    LET pkt == MuxPacket(m, c, flags, 0, bytes)
    IN  IF pkt.ret < 0
        THEN [m |-> [m EXCEPT !.conns[c].state = "Closed", !.wire = Append(@, pkt)],
              ret |-> "MuxError"]
        ELSE [m |-> [m EXCEPT !.conns[c].state = state, !.wire = Append(@, pkt)],
              ret |-> "Success"]

MuxDone(m, op, c, ret, sent) ==
    /\ muxConns' = m.conns
    /\ muxCount' = m.count
    /\ muxWire' = m.wire
    /\ muxLast' = [n |-> muxLast.n + 1, op |-> op, conn |-> c, ret |-> ret, sent |-> sent]

MuxEvent(m, op, c) ==
    /\ muxConns' = m.conns
    /\ muxCount' = m.count
    /\ muxWire' = m.wire
    /\ muxLast' = [muxLast EXCEPT !.op = op, !.conn = c, !.ret = "none", !.sent = 0]

\* a connection is made with this source port: the SYN goes out, and a short
\* write fails the connect and removes the entry
MuxConnect(op, source_port, dest_port) ==
    /\ \A c \in 1..Len(muxConns) : ~(muxConns[c].live /\ muxConns[c].state = "Connecting")
    /\ LET c == Len(muxConns) + 1
           m == [MuxState EXCEPT !.conns = Append(@, MuxConn(source_port, dest_port)),
                                 !.count = Append(@, [sent |-> U32Zero, accepted |-> U32Zero])]
       IN  \E bytes \in BulkWritten(SizeofMuxHeader) :
              LET r == MuxControlOn(m, c, "SYN", "Connecting", bytes)
              IN  IF r.ret = "Success"
                  THEN MuxDone(r.m, op, c, "pending", 0)
                  ELSE MuxDone([r.m EXCEPT !.conns[c].live = FALSE], op, c, "MuxError", 0)


\* connect(device, dest_port): the source port comes from the counter
iphone_device_connect(dst_port) ==
    /\ MuxConnect("iphone_device_connect", muxNextPort, dst_port)
    /\ muxNextPort' = (muxNextPort + 1) % 65536

\* the connect that takes the source port from its caller
iphone_mux_new_client(src_port, dst_port) ==
    /\ MuxConnect("iphone_mux_new_client", src_port, dst_port)
    /\ UNCHANGED muxNextPort

\* afc_client_new, lines 375-388: iphone_device_connect(device, dst_port, &connection)
afc_client_new(dst_port) == iphone_device_connect(dst_port)

\* iphone_np_new_client, NotificationProxy.c lines 152-166:
\* iphone_mux_new_client(device, src_port, dst_port, &client_loc->connection)
iphone_np_new_client(src_port, dst_port) == iphone_mux_new_client(src_port, dst_port)

\* the device answers the SYN: the connect returns the connection
MuxSynAck(c) ==
    /\ muxConns[c].live /\ muxConns[c].state = "Connecting"
    /\ muxConns' = [muxConns EXCEPT ![c].state = "Open"]
    /\ muxLast' = [muxLast EXCEPT !.op = "syn_ack", !.conn = c, !.ret = "Success"]
    /\ UNCHANGED <<muxNextPort, muxCount, muxWire>>

\* no answer within 1 s: the connect fails and the entry is removed
MuxConnectTimeout(c) ==
    /\ muxConns[c].live /\ muxConns[c].state = "Connecting"
    /\ muxConns' = [muxConns EXCEPT ![c].live = FALSE]
    /\ muxLast' = [muxLast EXCEPT !.op = "connect_timeout", !.conn = c, !.ret = "Timeout"]
    /\ UNCHANGED <<muxNextPort, muxCount, muxWire>>

\* send(conn, data, n)
iphone_device_send(c, n) ==
    /\ MuxUsable(MuxState, c)
    /\ \E bytes \in BulkWritten(SizeofMuxHeader + n) :
          LET r == MuxSendOn(MuxState, c, n, bytes)
          IN  MuxDone(r.m, "iphone_device_send", c, r.ret, r.sent)
    /\ UNCHANGED muxNextPort

\* afc_dispatch_packet, lines 466-521, on connection c. offset > 0 is the
\* two-segment path (this_length # entire_length): the header, the first
\* offset bytes and the rest, each only if the one before was sent; offset = 0
\* is the other path: the header, and the data only if the header was sent
afc_dispatch_sends(c, length, offset) ==
    /\ MuxUsable(MuxState, c)
    /\ \E b1 \in BulkWritten(SizeofMuxHeader + SizeofAFCPacket),
          b2 \in BulkWritten(SizeofMuxHeader + (IF offset > 0 THEN offset ELSE length)),
          b3 \in BulkWritten(SizeofMuxHeader + length - offset) :
          LET s1 == MuxSendOn(MuxState, c, SizeofAFCPacket, b1)
              s2 == MuxSendOn(s1.m, c, IF offset > 0 THEN offset ELSE length, b2)
              s3 == MuxSendOn(s2.m, c, length - offset, b3)
          IN  IF s1.sent = 0
              THEN MuxDone(s1.m, "afc_dispatch_packet", c, "none", 0)
              ELSE IF offset > 0
              THEN IF s2.sent = 0
                   THEN MuxDone(s2.m, "afc_dispatch_packet", c, "none", s1.sent)
                   ELSE MuxDone(s3.m, "afc_dispatch_packet", c, "none", s3.sent)
              ELSE IF length > 0
                   THEN MuxDone(s2.m, "afc_dispatch_packet", c, "none", s1.sent + s2.sent)
                   ELSE MuxDone(s1.m, "afc_dispatch_packet", c, "none", s1.sent)
    /\ UNCHANGED muxNextPort

\* recv(conn, buf, n): what is buffered, at most n bytes
MuxRecv(c, n) ==
    /\ MuxUsable(MuxState, c)
    /\ LET k == Min(n, muxConns[c].rx)
       IN  MuxDone([MuxState EXCEPT !.conns[c].rx = @ - k], "iphone_device_recv", c,
                   IF k > 0 THEN "Success"
                   ELSE IF muxConns[c].state = "Closed" THEN "Closed" ELSE "Timeout", k)
    /\ UNCHANGED muxNextPort

\* disconnect(conn): FIN, then HalfClosed
iphone_device_disconnect_unchecked(c) ==
    /\ MuxUsable(MuxState, c)
    /\ \E bytes \in BulkWritten(SizeofMuxHeader) :
          LET r == MuxControlOn(MuxState, c, "FIN", "HalfClosed", bytes)
          IN  MuxDone(r.m, "iphone_device_disconnect", c, r.ret, 0)
    /\ UNCHANGED muxNextPort

iphone_device_disconnect(c) ==
    /\ MuxUsable(MuxState, c)
    /\ IF muxConns[c].state = "Open"
       THEN \E bytes \in BulkWritten(SizeofMuxHeader) :
               LET r == MuxControlOn(MuxState, c, "FIN", "HalfClosed", bytes)
               IN  MuxDone(r.m, "iphone_device_disconnect", c, r.ret, 0)
       ELSE MuxDone(MuxState, "iphone_device_disconnect", c, "MuxError", 0)
    /\ UNCHANGED muxNextPort

\* reset(conn): RST, then Closed at once
MuxReset(c) ==
    /\ MuxUsable(MuxState, c)
    /\ IF muxConns[c].state # "Closed"
       THEN \E bytes \in BulkWritten(SizeofMuxHeader) :
               LET r == MuxControlOn(MuxState, c, "RST", "Closed", bytes)
               IN  MuxDone(r.m, "reset", c, r.ret, 0)
       ELSE MuxDone(MuxState, "reset", c, "MuxError", 0)
    /\ UNCHANGED muxNextPort

\* an inbound data packet for connection c: in order, its payload is queued,
\* ack advances and a pure ACK goes out; out of order, the connection closes
MuxDeliver(c, in_order) ==
    /\ muxConns[c].live /\ muxConns[c].state \in {"Open", "HalfClosed"}
    /\ muxConns[c].peer > 0
    /\ IF in_order
       THEN LET k == muxConns[c].peer
                m == [MuxState EXCEPT !.conns[c].rx = @ + k,
                                      !.conns[c].peer = 0,
                                      !.conns[c].ack = U32Add(@, k),
                                      !.count[c].accepted = CountAdd(@, k)]
            IN  \E bytes \in BulkWritten(SizeofMuxHeader) :
                   MuxEvent(MuxControlOn(m, c, "ACK", muxConns[c].state, bytes).m,
                            "deliver", c)
       ELSE MuxEvent([MuxState EXCEPT !.conns[c].state = "Closed"], "bad_seq", c)
    /\ UNCHANGED muxNextPort

\* the FIN of the peer
MuxPeerFin(c) ==
    /\ muxConns[c].live /\ muxConns[c].state = "HalfClosed"
    /\ MuxEvent([MuxState EXCEPT !.conns[c].state = "Closed"], "peer_fin", c)
    /\ UNCHANGED muxNextPort

\* 500 ms after the local FIN
MuxCloseTimeout(c) ==
    /\ muxConns[c].live /\ muxConns[c].state = "HalfClosed"
    /\ MuxEvent([MuxState EXCEPT !.conns[c].state = "Closed"], "close_timeout", c)
    /\ UNCHANGED muxNextPort

\* an RST of the peer; a connect it answers fails and the entry is removed
MuxPeerRst(c) ==
    /\ muxConns[c].live /\ muxConns[c].state # "Closed"
    /\ MuxEvent([MuxState EXCEPT !.conns[c].state = "Closed",
                                 !.conns[c].live = muxConns[c].state # "Connecting"],
                "peer_rst", c)
    /\ UNCHANGED muxNextPort

(***************************************************************************)
(*        The lockdown client and its TLS session (lockdown.c)             *)
(*                                                                         *)
(* Of the lockdown client only the struct and the declarations of          *)
(* lockdown.h are in the sources; the session state machine, the requests  *)
(* and the TLS bridge are modelled from sections 4.4, 4.5 and 7 of the     *)
(* specification.                                                          *)
(***************************************************************************)
VARIABLES
    ldState,        \* Fresh, Handshook, Sessioned, Secured or Closed
    ldIn_SSL,       \* client->in_SSL
    ldSession_id,   \* client->session_id: "" when there is none
    ldWire,         \* what went over the lockdown connection, oldest first
    ldCalls,        \* requests made so far
    ldRet,          \* what the last request returned
    ldPc            \* position in lockdownd_stop_session, "idle" outside it

ldVars == <<ldState, ldIn_SSL, ldSession_id, ldWire, ldCalls, ldRet, ldPc>>

MaxLdCalls == 5        \* requests on the lockdown client

\* one message on the lockdown connection: kind is how its bytes travel
\* ("clear", "tls", or "handshake" for the records of the TLS handshake and
\* the close-notify), state the state of the client when it was written
LdMessage(dir, what, kind) == [dir |-> dir, what |-> what, kind |-> kind, state |-> ldState]

\* the send and the receive of the client: through the TLS session when
\* in_SSL is set, else directly on the mux connection
lockdownd_send_clear(in_SSL, what) == LdMessage("out", what, "clear")

lockdownd_send(in_SSL, what) ==
    LdMessage("out", what, IF in_SSL = 1 THEN "tls" ELSE "clear")

lockdownd_recv(in_SSL, what) ==
    LdMessage("in", what, IF in_SSL = 1 THEN "tls" ELSE "clear")

\* a request and its response
LdExchange(in_SSL, what) == << lockdownd_send(in_SSL, what), lockdownd_recv(in_SSL, what) >>

LdReturn(ret) ==
    /\ ldCalls' = ldCalls + 1
    /\ ldRet' = ret
    /\ ldPc' = "idle"

\* QueryType: anything but com.apple.mobile.lockdown is fatal
lockdownd_query_type(is_lockdown) ==
    /\ ldPc = "idle"
    /\ ldState = "Fresh"
    /\ ldWire' = ldWire \o LdExchange(ldIn_SSL, "QueryType")
    /\ ldState' = IF is_lockdown THEN "Handshook" ELSE "Closed"
    /\ LdReturn(IF is_lockdown THEN "Success" ELSE "InvalidService")
    /\ UNCHANGED <<ldIn_SSL, ldSession_id>>

\* the TLS handshake over the mux connection; a failure closes the connection
lockdownd_start_ssl_session(handshake_ok) ==
    /\ ldWire' = ldWire \o LdExchange(ldIn_SSL, "StartSession")
                        \o << LdMessage("out", "ClientHello", "handshake"),
                              LdMessage("in", "ServerHello", "handshake") >>
    /\ ldIn_SSL' = IF handshake_ok THEN 1 ELSE 0
    /\ ldState' = IF handshake_ok THEN "Secured" ELSE "Closed"
    /\ LdReturn(IF handshake_ok THEN "Success" ELSE "SslError")

\* StartSession: the response carries SessionID and EnableSessionSSL
lockdownd_start_session(EnableSessionSSL, handshake_ok) ==
    /\ ldPc = "idle"
    /\ ldState \in {"Handshook", "Sessioned"}
    /\ ldSession_id' = "SessionID"
    /\ IF EnableSessionSSL
       THEN lockdownd_start_ssl_session(handshake_ok)
       ELSE /\ ldWire' = ldWire \o LdExchange(ldIn_SSL, "StartSession")
            /\ ldState' = "Sessioned"
            /\ LdReturn("Success")
            /\ UNCHANGED ldIn_SSL

\* GetValue and StartService: one request, one response
lockdownd_request(what) ==
    /\ ldPc = "idle"
    /\ ldState \in {"Handshook", "Sessioned", "Secured"}
    /\ ldWire' = ldWire \o LdExchange(ldIn_SSL, what)
    /\ LdReturn("Success")
    /\ UNCHANGED <<ldState, ldIn_SSL, ldSession_id>>

\* StopSession, in any state of an open connection: the request and its
\* response, then TLS is torn down (close-notify, in_SSL reset) ...
lockdownd_stop_session_keeps_tls ==
    /\ ldPc = "idle"
    /\ ldState # "Closed"
    /\ ldWire' = ldWire \o LdExchange(ldIn_SSL, "StopSession")
    /\ ldPc' = "stop_clear"
    /\ UNCHANGED <<ldState, ldIn_SSL, ldSession_id, ldCalls, ldRet>>

lockdownd_stop_session ==
    /\ ldPc = "idle"
    /\ ldState # "Closed"
    /\ ldWire' = ldWire \o LdExchange(ldIn_SSL, "StopSession")
                        \o (IF ldIn_SSL = 1
                            THEN << LdMessage("out", "close_notify", "handshake") >>
                            ELSE << >>)
    /\ ldIn_SSL' = 0
    /\ ldState' = IF ldState = "Secured" THEN "Sessioned" ELSE ldState
    /\ ldPc' = "stop_clear"
    /\ UNCHANGED <<ldSession_id, ldCalls, ldRet>>

\* ... and then session_id is cleared: the client is Handshook again
ld_stop_clear ==
    /\ ldPc = "stop_clear"
    /\ ldSession_id' = ""
    /\ ldState' = "Handshook"
    /\ LdReturn("Success")
    /\ UNCHANGED <<ldIn_SSL, ldWire>>

\* a transport error or the close of the connection
LdClose ==
    /\ ldPc = "idle"
    /\ ldState # "Closed"
    /\ ldState' = "Closed"
    /\ ldRet' = "Closed"
    /\ UNCHANGED <<ldIn_SSL, ldSession_id, ldWire, ldCalls, ldPc>>

\* lockdownd_client_new: a client on a fresh connection to port 62078
LdClientNew ==
    /\ ldState = "Fresh"
    /\ ldIn_SSL = 0
    /\ ldSession_id = ""
    /\ ldWire = << >>
    /\ ldCalls = 0
    /\ ldRet = "none"
    /\ ldPc = "idle"

(***************************************************************************)
(*                          The specifications                             *)
(***************************************************************************)
vars == <<usbVars, npVars, msVars, afcVars, muxVars, ldVars, arVars>>

\* the values of a subsystem that a specification does not exercise
UsbUnused ==
    /\ usbBusses = << >>
    /\ usbArgs = [api |-> "iphone_get_specific_device", bus_n |-> 1, dev_n |-> 1,
                  device |-> "null_pointer", free |-> "not_called"]
    /\ usbPc = "unused"
    /\ usbLog = << >>
    /\ phoneDevice = NULL
    /\ usbVersion = << >>
    /\ usbBytes = 0
    /\ usbDrains = 0
    /\ usbRet = "none"
    /\ usbOut = NULL
    /\ usbPending = "none"

\* iphone_np_new_client, lines 152-178, has succeeded; the device has `stream` to send
NpClient(stream) ==
    /\ npConnection = "conn"
    /\ npConnFreed = FALSE
    /\ npMutex = NULL
    /\ npNotifier = NULL
    /\ npClientFreed = FALSE
    /\ npFault = FALSE
    /\ npPc = [t \in NpThreads |-> IF t \in Apps THEN "idle" ELSE "unborn"]
    /\ npLocal = [t \in NpThreads |-> NpLocalInit]
    /\ npWire = << >>
    /\ npRx = << >>
    /\ npDevice = stream
    /\ npCallbacks = << >>
    /\ npCalls = 0

NpUnused == NpClient(<< >>)

\* mobilesync_client_new has succeeded; the device has `stream` to send
MsClient(stream) ==
    /\ msConnection = "open"
    /\ msPc = "idle"
    /\ msLocal = MsLocalInit
    /\ msPlist = NoDict
    /\ msRx = << >>
    /\ msDevice = stream
    /\ msCalls = 0
    /\ msOther = MsContext("idle", MsLocalInit, NoDict)
    /\ msReads = << >>

MsUnused == MsClient(<< >>)

\* afc_client_new, lines 375-411, has succeeded
AfcClient ==
    /\ afcMutex = NULL
    /\ afcPacket = [packet_num |-> 0, entire_length |-> 0, this_length |-> 0,
                    operation |-> "none"]
    /\ afcPc = [t \in Apps |-> "idle"]
    /\ afcLocal = [t \in Apps |-> AfcLocalInit]
    /\ afcLog = << >>
    /\ afcCalls = 0
    /\ afcIo = AfcIoNone

\* a freshly constructed mux transport
MuxTransportNew ==
    /\ muxNextPort = FirstSourcePort
    /\ muxConns = << >>
    /\ muxCount = << >>
    /\ muxWire = << >>
    /\ muxLast = [n |-> 0, op |-> "none", conn |-> 0, ret |-> "none", sent |-> 0]

\* ---- device open
UsbStep(A) == A /\ UNCHANGED <<npVars, msVars, afcVars, muxVars, ldVars, arVars>>

NextUsb ==
    \/ UsbStep(iphone_get_specific_device)
    \/ UsbStep(usb_set_configuration)
    \/ UsbStep(usb_detach_kernel_driver_np)
    \/ UsbStep(usb_set_configuration_again)
    \/ UsbStep(usb_claim_interface)
    \/ UsbStep(initial_read)
    \/ UsbStep(version_write)
    \/ UsbStep(version_read)
    \/ UsbStep(final_read)
    \/ UsbStep(usb_release_interface)
    \/ UsbStep(usb_close)
    \/ UsbStep(UsbFault)

InitDeviceOpen == InitUsb /\ NpUnused /\ MsUnused /\ AfcClient /\ LdClientNew /\ MuxTransportNew

SpecUsb == InitDeviceOpen /\ [][NextUsb]_vars

\* ---- iphone_get_device, and iphone_free_device on what it returned
NextUsbDevice ==
    \/ UsbStep(iphone_get_device)
    \/ UsbStep(iphone_free_device)
    \/ NextUsb

InitUsbDevice == InitGetDevice /\ NpUnused /\ MsUnused /\ AfcClient /\ LdClientNew /\ MuxTransportNew

SpecUsbDevice == InitUsbDevice /\ [][NextUsbDevice]_vars

\* ---- one Notification Proxy client used by two application threads and
\* the notifier threads they create
NpStep(A) == A /\ UNCHANGED <<usbVars, msVars, afcVars, muxVars, ldVars, arVars>>

TheNotification == "com.apple.mobile.application_installed"

InitNp == UsbUnused /\ MsUnused /\ AfcClient /\ LdClientNew /\ MuxTransportNew /\ NpClient(Frame(plist_to_xml(RelayWithName)))

NextNp ==
    \/ \E t \in Apps, cb \in {NULL, "notify_cb"} :
          npCalls < MaxNpCalls /\ NpStep(call_set_notify_callback(t, "client", cb))
    \/ \E t \in Apps :
          npCalls < MaxNpCalls /\ NpStep(call_free_client(t, "client"))
    \/ \E t \in Apps :
          \/ NpStep(snc_lock(t))
          \/ NpStep(snc_detach(t))
          \/ NpStep(snc_join(t))
          \/ NpStep(snc_create(t))
          \/ NpStep(snc_unlock(t))
          \/ NpStep(fc_mux_free(t))
          \/ NpStep(fc_clear(t))
          \/ NpStep(fc_join(t))
          \/ NpStep(fc_free(t))
    \/ \E t \in Notifiers :
          \/ NpStep(nt_loop(t))
          \/ NpStep(gn_check(t))
          \/ NpStep(gn_lock(t))
          \/ NpStep(gn_recv_len(t))
          \/ NpStep(gn_recv_len_end(t))
          \/ NpStep(gn_recv_payload(t))
          \/ NpStep(gn_recv_payload_end(t))
          \/ NpStep(gn_recv_freed(t))
          \/ NpStep(gn_unlock(t))
          \/ NpStep(nt_callback(t))
    \/ NpStep(NpDeviceDeliver(Len(npDevice)))

SpecNp == InitNp /\ [][NextNp]_vars

\* ---- one application thread registering, replacing and de-registering
\* callbacks while the device sends two notifications
TwoNotifications == Frame(plist_to_xml(RelayWithName)) \o Frame(plist_to_xml(RelaySyncDidStart))

InitNpNotify == UsbUnused /\ MsUnused /\ AfcClient /\ LdClientNew /\ MuxTransportNew /\ NpClient(TwoNotifications)

NextNpNotify ==
    \/ \E cb \in {NULL, "notify_cb", "other_cb"} :
          npCalls < MaxNpCalls /\ NpStep(call_set_notify_callback("app1", "client", cb))
    \/ NpStep(snc_lock("app1"))
    \/ NpStep(snc_detach("app1"))
    \/ NpStep(snc_join("app1"))
    \/ NpStep(snc_create("app1"))
    \/ NpStep(snc_unlock("app1"))
    \/ \E t \in Notifiers :
          \/ NpStep(nt_loop(t))
          \/ NpStep(gn_check(t))
          \/ NpStep(gn_lock(t))
          \/ NpStep(gn_recv_len(t))
          \/ NpStep(gn_recv_len_end(t))
          \/ NpStep(gn_recv_payload(t))
          \/ NpStep(gn_recv_payload_end(t))
          \/ NpStep(gn_unlock(t))
          \/ NpStep(nt_callback(t))
    \/ \E k \in {10, Len(npDevice)} : NpStep(NpDeviceDeliver(k))

SpecNpNotify == InitNpNotify /\ [][NextNpNotify]_vars

\* ---- two application threads sending on one client
MaxSends == 2          \* calls of the sending operations in all

InitNpSend == UsbUnused /\ MsUnused /\ AfcClient /\ LdClientNew /\ MuxTransportNew /\ NpClient(<< >>)

NextNpSend ==
    \/ \E t \in Apps, op \in {"iphone_np_post_notification", "iphone_np_observe_notification"},
          notification \in {NULL, TheNotification} :
          npCalls < MaxSends /\ NpStep(call_send(t, op, "client", notification))
    \/ \E t \in Apps :
          \/ NpStep(ps_lock(t))
          \/ NpStep(ps_send_len(t))
          \/ NpStep(ps_send_payload(t))
          \/ NpStep(ps_sent(t))
          \/ NpStep(ps_unlock(t))

SpecNpSend == InitNpSend /\ [][NextNpSend]_vars

\* ---- one thread polling with iphone_np_get_notification while the device
\* delivers its stream in chunks of any size
NpRecvStreams ==
    { Frame(plist_to_xml(d)) : d \in { RelayWithName, NameThenRelay, RelayNoName,
                                       RelayNameNotString, RelayOtherKey, ProxyDeath,
                                       UnknownCommand, CommandNotString, NoCommand } }
    \cup { Frame(NotXml), Frame(<< >>),
           Frame(plist_to_xml(RelayNoName)) \o Frame(plist_to_xml(ProxyDeath)) }

InitNpRecv == UsbUnused /\ MsUnused /\ AfcClient /\ LdClientNew /\ MuxTransportNew /\ \E stream \in NpRecvStreams : NpClient(stream)

NextNpRecv ==
    \/ \E client \in {NULL, "client"}, notification \in {NULL, "old"} :
          npCalls < MaxNpCalls /\ NpStep(call_get_notification("app1", client, notification))
    \/ NpStep(gn_check("app1"))
    \/ NpStep(gn_lock("app1"))
    \/ NpStep(gn_recv_len("app1"))
    \/ NpStep(gn_recv_len_end("app1"))
    \/ NpStep(gn_recv_payload("app1"))
    \/ NpStep(gn_recv_payload_end("app1"))
    \/ NpStep(gn_unlock("app1"))
    \/ \E k \in 1..Len(npDevice) : NpStep(NpDeviceDeliver(k))

SpecNpRecv == InitNpRecv /\ [][NextNpRecv]_vars

\* ---- one thread calling mobilesync_recv while the device delivers its
\* stream in chunks of any size
MsStep(A) == A /\ UNCHANGED <<usbVars, npVars, afcVars, muxVars, ldVars, arVars>>

VersionExchange == << PlistNodes[12], PlistNodes[14], PlistNodes[14] >>

DeviceReady == << PlistNodes[13] >>

\* a payload that is no binary plist
NotBin == << 98, 33 >>

MsStreams ==
    { Frame(plist_to_bin(VersionExchange)), Frame(plist_to_bin(DeviceReady)),
      Frame(NotBin), Frame(<< >>),
      Frame(plist_to_bin(DeviceReady)) \o Frame(plist_to_bin(VersionExchange)) }

InitMs == UsbUnused /\ NpUnused /\ AfcClient /\ LdClientNew /\ MuxTransportNew /\ \E stream \in MsStreams : MsClient(stream)

NextMs ==
    \/ \E client \in {NULL, "client"}, plist \in {NoDict, [ok |-> TRUE, nodes |-> DeviceReady]} :
          msCalls < MaxMsCalls /\ MsStep(mobilesync_recv(client, plist))
    \/ MsStep(ms_recv_len)
    \/ MsStep(ms_recv_payload)
    \/ MsStep(ms_finish)
    \/ \E k \in 1..Len(msDevice) : MsStep(MsDeviceDeliver(k))

SpecMs == InitMs /\ [][NextMs]_vars

\* the calling thread is scheduled and every iphone_device_recv it makes
\* returns (with bytes, or with an error when none arrive); the device is
\* free never to deliver
MsThreadRuns ==
    /\ WF_vars(MsStep(ms_recv_len))
    /\ WF_vars(MsStep(ms_recv_payload))
    /\ WF_vars(MsStep(ms_finish))

\* the streams of one frame
MsFrames == { Frame(plist_to_bin(DeviceReady)), Frame(NotBin), Frame(<< >>) }

InitMsFair ==
    UsbUnused /\ NpUnused /\ AfcClient /\ LdClientNew /\ MuxTransportNew
       /\ \E stream \in MsFrames : MsClient(stream)

SpecMsFair == InitMsFair /\ [][NextMs]_vars /\ MsThreadRuns

\* ---- two threads calling mobilesync_recv on one client
InitMsThreads ==
    UsbUnused /\ NpUnused /\ AfcClient /\ LdClientNew /\ MuxTransportNew
       /\ MsClient(Frame(plist_to_bin(DeviceReady)))

NextMsThreads ==
    \/ msCalls < MaxMsCalls /\ MsStep(mobilesync_recv("client", NoDict))
    \/ MsStep(ms_recv_len)
    \/ MsStep(ms_recv_payload)
    \/ MsStep(ms_finish)
    \/ \E k \in 1..Len(msDevice) : MsStep(MsDeviceDeliver(k))
    \/ MsStep(MsYield)

SpecMsThreads == InitMsThreads /\ [][NextMsThreads]_vars

\* ---- two threads calling AFC operations on one client
AfcStep(A) == A /\ UNCHANGED <<usbVars, npVars, msVars, muxVars, ldVars, arVars>>

AfcOps == {"afc_read_directory", "afc_file_read", "afc_file_write"}

AfcLengths(op) ==
    CASE op = "afc_read_directory" -> {2}
      [] op = "afc_file_read" -> {0, MAXIMUM_READ_SIZE + 5}
      [] op = "afc_file_write" -> {5, MAXIMUM_WRITE_SIZE + 5}

InitAfc == UsbUnused /\ NpUnused /\ MsUnused /\ AfcClient /\ LdClientNew /\ MuxTransportNew

NextAfc ==
    \/ \E t \in Apps, op \in AfcOps, valid \in BOOLEAN :
          \E length \in AfcLengths(op) :
             afcCalls < MaxAfcCalls /\ AfcStep(afc_call(t, op, valid, length))
    \/ \E t \in Apps :
          \/ AfcStep(afc_op_lock(t))
          \/ AfcStep(rd_dispatch(t))
          \/ AfcStep(rd_receive(t))
          \/ AfcStep(fr_loop(t))
          \/ AfcStep(fr_receive(t))
          \/ AfcStep(fw_segment(t))
          \/ AfcStep(fw_segment_receive(t))
          \/ AfcStep(fw_rest(t))
          \/ AfcStep(fw_rest_receive(t))
          \/ AfcStep(afc_op_unlock(t))

SpecAfc == InitAfc /\ [][NextAfc]_vars

\* ---- requests dispatched and responses received on one AFC client
ArStep(A) ==
    A /\ UNCHANGED <<usbVars, npVars, msVars, muxVars, ldVars,
                     afcMutex, afcPc, afcLocal, afcLog, afcCalls>>

\* the header lengths an operation sets: <<this_length, entire_length>>
AfcHeaderLengths == { <<0, 0>>, <<48, 53>>, <<48, 60>> }

\* the lengths a response carries: this_length, entire_length
AfcResponseLengths ==
    { <<39, 40>>, <<40, 40>>, <<48, 48>>, <<40, 48>>, <<44, 48>>, <<48, 40>> }

\* what the reads of the data of a response return, in order
AfcDataReads == { << >>, <<4>>, <<4, 4>>, <<8>>, <<8, 8>> }

AfcResponses(packet_num) ==
    { AfcResponse(hbytes, magic, num, lengths, operation, param1, dbytes) :
         hbytes \in {0, 39, 40}, magic \in {AFC_MAGIC, "XFA6LPAA"},
         num \in {packet_num - 1, packet_num, packet_num + 1},
         lengths \in AfcResponseLengths,
         operation \in {"AFC_OP_STATUS", "AFC_OP_DATA", "AFC_OP_READ_DIR"},
         param1 \in {0, 8}, dbytes \in AfcDataReads }

InitAfcPacket == InitAfc

NextAfcPacket ==
    \/ \E lengths \in AfcHeaderLengths, length \in {0, 5} :
          afcIo.dispatches < MaxDispatches /\ ArStep(ar_dispatch(lengths, length))
    \/ afcIo.dispatches > 0 /\ afcIo.received.ret = "none"
          /\ \E r \in AfcResponses(afcPacket.packet_num) : ArStep(ar_receive(r))

SpecAfcPacket == InitAfcPacket /\ [][NextAfcPacket]_vars

\* ---- two threads calling the operations of an AFC client and of a
\* Notification Proxy client that take the client mutex: app1 calls any of
\* them, with valid and invalid arguments, and app2 contends with
\* afc_file_open and iphone_np_get_notification
MaxLockCalls == 2      \* operations called in all, on both clients

LockedAfcOps == {"afc_file_open", "afc_file_read", "afc_file_write"}

\* the application uses one client at a time
AfcQuiet == \A u \in Apps : afcPc[u] = "idle"

NpQuiet == \A u \in Apps : npPc[u] = "idle"

LockLengths(op) ==
    CASE op = "afc_file_open" -> {13}
      [] op = "afc_file_read" -> {5}
      [] op = "afc_file_write" -> {MAXIMUM_WRITE_SIZE + 5}

\* the arguments are checked alike in every operation (1013, 1068, 1145)
LockValid(op) == IF op = "afc_file_open" THEN BOOLEAN ELSE {TRUE}

LockStreams == { Frame(NotXml), Frame(plist_to_xml(RelayWithName)) }

InitClientLocks == UsbUnused /\ MsUnused /\ AfcClient /\ LdClientNew /\ MuxTransportNew /\ \E stream \in LockStreams : NpClient(stream)

NextClientLocks ==
    \/ \E t \in Apps, op \in LockedAfcOps :
          \E length \in LockLengths(op), valid \in LockValid(op) :
             /\ t = "app2" => op = "afc_file_open" /\ valid
             /\ afcCalls + npCalls < MaxLockCalls
             /\ NpQuiet
             /\ AfcStep(afc_call(t, op, valid, length))
    \/ \E t \in Apps, client \in {NULL, "client"} :
          /\ t = "app2" => client # NULL
          /\ afcCalls + npCalls < MaxLockCalls
          /\ AfcQuiet
          /\ NpStep(call_get_notification(t, client, NULL))
    \/ /\ afcCalls + npCalls < MaxLockCalls
       /\ AfcQuiet
       /\ NpStep(call_send("app1", "iphone_np_observe_notification", "client", TheNotification))
    \/ \E t \in Apps :
          \/ AfcStep(afc_op_lock(t))
          \/ AfcStep(rd_dispatch(t))
          \/ AfcStep(rd_receive(t))
          \/ AfcStep(fr_loop(t))
          \/ AfcStep(fr_receive(t))
          \/ AfcStep(fw_segment(t))
          \/ AfcStep(fw_segment_receive(t))
          \/ AfcStep(fw_rest(t))
          \/ AfcStep(fw_rest_receive(t))
          \/ AfcStep(afc_op_unlock(t))
          \/ NpStep(gn_check(t))
          \/ NpStep(gn_lock(t))
          \/ NpStep(gn_recv_len(t))
          \/ NpStep(gn_recv_len_end(t))
          \/ NpStep(gn_recv_payload(t))
          \/ NpStep(gn_recv_payload_end(t))
          \/ NpStep(gn_unlock(t))
          \/ NpStep(ps_lock(t))
          \/ NpStep(ps_send_len(t))
          \/ NpStep(ps_send_payload(t))
          \/ NpStep(ps_sent(t))
          \/ NpStep(ps_unlock(t))
    \/ NpStep(NpDeviceDeliver(Len(npDevice)))

SpecClientLocks == InitClientLocks /\ [][NextClientLocks]_vars

\* ---- connections made, used and closed on the mux transport of one device
MuxStep(A) == A /\ UNCHANGED <<usbVars, npVars, msVars, afcVars, ldVars, arVars>>

LockdownPort == 62078

\* the source ports a caller of iphone_np_new_client passes
NpSourcePorts == {FirstSourcePort, 3555}

\* a transport whose first connection has been open for long: it has sent
\* and accepted 2^32 - 2 payload bytes
MuxLongLived ==
    /\ muxNextPort = FirstSourcePort + 1
    /\ muxConns = << [MuxConn(FirstSourcePort, LockdownPort) EXCEPT
                         !.state = "Open",
                         !.seq = [hi |-> 65535, lo |-> 65534],
                         !.ack = [hi |-> 65535, lo |-> 65534]] >>
    /\ muxCount = << [sent |-> [hi |-> 65535, lo |-> 65534],
                      accepted |-> [hi |-> 65535, lo |-> 65534]] >>
    /\ muxWire = << >>
    /\ muxLast = [n |-> 0, op |-> "none", conn |-> 0, ret |-> "none", sent |-> 0]

InitMux == UsbUnused /\ NpUnused /\ MsUnused /\ AfcClient /\ LdClientNew /\ (MuxTransportNew \/ MuxLongLived)

NextMux ==
    \/ muxLast.n < MaxMuxCalls /\ Len(muxConns) < MaxConns
          /\ MuxStep(afc_client_new(LockdownPort))
    \/ \E src_port \in NpSourcePorts :
          muxLast.n < MaxMuxCalls /\ Len(muxConns) < MaxConns
             /\ MuxStep(iphone_np_new_client(src_port, LockdownPort))
    \/ \E c \in 1..Len(muxConns) :
          muxLast.n < MaxMuxCalls /\ MuxStep(iphone_device_send(c, 5))
    \/ \E c \in 1..Len(muxConns), data \in {<<0, 0>>, <<5, 0>>, <<5, 2>>} :
          muxLast.n < MaxMuxCalls /\ MuxStep(afc_dispatch_sends(c, data[1], data[2]))
    \/ \E c \in 1..Len(muxConns) :
          muxLast.n < MaxMuxCalls /\ MuxStep(MuxRecv(c, 2))
    \/ \E c \in 1..Len(muxConns) :
          muxLast.n < MaxMuxCalls /\ MuxStep(iphone_device_disconnect(c))
    \/ \E c \in 1..Len(muxConns) :
          muxLast.n < MaxMuxCalls /\ MuxStep(MuxReset(c))
    \/ \E c \in 1..Len(muxConns) : MuxStep(MuxSynAck(c))
    \/ \E c \in 1..Len(muxConns) : MuxStep(MuxConnectTimeout(c))
    \/ \E c \in 1..Len(muxConns), in_order \in BOOLEAN : MuxStep(MuxDeliver(c, in_order))
    \/ \E c \in 1..Len(muxConns) : MuxStep(MuxPeerFin(c))
    \/ \E c \in 1..Len(muxConns) : MuxStep(MuxCloseTimeout(c))
    \/ \E c \in 1..Len(muxConns) : MuxStep(MuxPeerRst(c))

SpecMux == InitMux /\ [][NextMux]_vars

\* ---- a device closed while the transport has connections on it
InitDeviceInUse ==
    /\ usbBusses = << UsbDevice(1, 1, IdVendorApple, IdProductFirst) >>
    /\ usbArgs = [api |-> "iphone_get_specific_device", bus_n |-> 1, dev_n |-> 1,
                  device |-> "holds_NULL", free |-> "not_called"]
    /\ UsbCalled

InitDeviceClose ==
    InitDeviceInUse /\ NpUnused /\ MsUnused /\ AfcClient /\ LdClientNew /\ MuxTransportNew

\* the application uses the device iphone_get_specific_device returned
DeviceInUse == usbPc = "done" /\ usbOut = "phone" /\ usbArgs.free = "not_called"

NextDeviceClose ==
    \/ NextUsb
    \/ UsbStep(iphone_free_device)
    \/ DeviceInUse /\ muxLast.n < MaxMuxCalls /\ Len(muxConns) < MaxConns
          /\ MuxStep(afc_client_new(LockdownPort))
    \/ \E c \in 1..Len(muxConns) :
          DeviceInUse /\ muxLast.n < MaxMuxCalls /\ MuxStep(MuxRecv(c, 2))
    \/ \E c \in 1..Len(muxConns) :
          DeviceInUse /\ muxLast.n < MaxMuxCalls /\ MuxStep(MuxReset(c))
    \/ \E c \in 1..Len(muxConns) : usbOut = "phone" /\ MuxStep(MuxSynAck(c))
    \/ \E c \in 1..Len(muxConns) : usbOut = "phone" /\ MuxStep(MuxDeliver(c, TRUE))

SpecDeviceClose == InitDeviceClose /\ [][NextDeviceClose]_vars

\* ---- the lockdown client
LdStep(A) == A /\ UNCHANGED <<usbVars, npVars, msVars, afcVars, muxVars, arVars>>

InitLockdown == UsbUnused /\ NpUnused /\ MsUnused /\ AfcClient /\ LdClientNew /\ MuxTransportNew

NextLockdown ==
    \/ \E is_lockdown \in BOOLEAN :
          ldCalls < MaxLdCalls /\ LdStep(lockdownd_query_type(is_lockdown))
    \/ \E EnableSessionSSL \in BOOLEAN, handshake_ok \in BOOLEAN :
          ldCalls < MaxLdCalls
             /\ LdStep(lockdownd_start_session(EnableSessionSSL, handshake_ok))
    \/ \E what \in {"GetValue", "StartService"} :
          ldCalls < MaxLdCalls /\ LdStep(lockdownd_request(what))
    \/ ldCalls < MaxLdCalls /\ LdStep(lockdownd_stop_session)
    \/ LdStep(ld_stop_clear)
    \/ LdStep(LdClose)

SpecLockdown == InitLockdown /\ [][NextLockdown]_vars

(***************************************************************************)
(*                   Notification Proxy: the properties                    *)
(***************************************************************************)
SentByOneCall(e, f) == e.t = f.t /\ e.call = f.call /\ e.send = f.send

\* C3: on one Notification Proxy client every XML payload on the connection
\* comes directly after the complete 4-byte big-endian length that the same
\* np_plist_send wrote, with nothing of another sender in between, in every
\* interleaving of the sending threads.
C3_LengthAndPayloadAdjacent ==
    \A i \in 1..Len(npWire) :
        npWire[i].part = "payload" =>
            /\ i > 1
            /\ npWire[i - 1].part = "length"
            /\ SentByOneCall(npWire[i - 1], npWire[i])
            /\ Len(npWire[i - 1].data) = 4
            /\ WireU32(npWire[i - 1].data) >= Len(npWire[i].data)

\* two threads have each sent a length and a payload on the one connection
C3_Witness ==
    \E i, j \in 1..Len(npWire) :
        /\ npWire[i].part = "payload" /\ npWire[j].part = "payload"
        /\ npWire[i].t = "app1" /\ npWire[j].t = "app2"
        /\ WireU32(npWire[j - 1].data) = Len(npWire[j].data)

\* C6: a caller of iphone_np_set_notify_callback or iphone_np_free_client that
\* waits in g_thread_join for the notifier never holds the client mutex the
\* notifier is waiting for, so the notifier can always go on to leave its loop
\* and the join can complete.
C6_JoinNotBlockedByMutex ==
    \A t \in Apps :
        npPc[t] \in {"snc_join", "fc_join"} =>
            ~(npNotifier # NULL /\ npPc[npNotifier] = "gn_lock" /\ npMutex = t)

\* a complete iphone_np_get_notification call of thread t
NpReturned(t) ==
    /\ npPc[t] = "idle"
    /\ npLocal[t].op = "iphone_np_get_notification"
    /\ npLocal[t].ret # "none"

\* the stream starts with a complete frame
HasFrame(stream) ==
    /\ Len(stream) >= 4
    /\ Len(stream) >= 4 + WireU32(SubSeq(stream, 1, 4))

FramePayload(stream) == SubSeq(stream, 5, 4 + WireU32(SubSeq(stream, 1, 4)))

\* C5: when iphone_np_get_notification has read the length of a frame and
\* any of its payload, what it parses is the whole payload of that frame,
\* however the device split the frame into chunks.
C5_PayloadReadInFull ==
    ( /\ NpReturned("app1")
      /\ HasFrame(npLocal["app1"].stream0)
      /\ npLocal["app1"].XML_content # << >> )
    => npLocal["app1"].XML_content = FramePayload(npLocal["app1"].stream0)

\* C7: when iphone_np_get_notification returns IPHONE_E_TIMEOUT the
\* connection is still open and no byte of the stream has been consumed, so
\* the next frame is still read from its first byte.
C7_TimeoutConsumesNothing ==
    ( NpReturned("app1") /\ npLocal["app1"].ret = "IPHONE_E_TIMEOUT" )
    => /\ npConnection = "conn"
       /\ npRx \o npDevice = npLocal["app1"].stream0

\* the value node of the first key `key` of a dict is a string (any position)
KeyHasString(dict, key) ==
    \E i \in 1..(Len(dict) - 1) :
        /\ dict[i] = [type |-> "PLIST_KEY", val |-> key]
        /\ \A j \in 1..(i - 1) : dict[j] # dict[i]
        /\ dict[i + 1].type = "PLIST_STRING"

RelayWithNameString(dict) ==
    /\ KeyHasString(dict, "Name")
    /\ \E i \in 1..(Len(dict) - 1) :
          /\ dict[i] = [type |-> "PLIST_KEY", val |-> "Command"]
          /\ \A j \in 1..(i - 1) : dict[j] # dict[i]
          /\ dict[i + 1] = [type |-> "PLIST_STRING", val |-> "RelayNotification"]

RelayThenName(dict) ==
    \E i \in 1..(Len(dict) - 3) :
        /\ dict[i] = [type |-> "PLIST_KEY", val |-> "Command"]
        /\ \A j \in 1..(i - 1) : dict[j] # dict[i]
        /\ dict[i + 1] = [type |-> "PLIST_STRING", val |-> "RelayNotification"]
        /\ dict[i + 2] = [type |-> "PLIST_KEY", val |-> "Name"]
        /\ dict[i + 3].type = "PLIST_STRING"

MsReturned == msPc = "idle" /\ msLocal.result # "none"

\* C4: mobilesync_recv returns MOBILESYNC_E_SUCCESS only when it has taken
\* the complete 4-byte prefix of the frame as the length and collected
\* exactly that many payload bytes, whatever chunks the device delivered:
\* the bytes it decodes are the payload of the frame and it consumed the
\* frame and nothing else.
C4_SuccessOnlyWithFramedPayload ==
    ( MsReturned /\ msLocal.result = "MOBILESYNC_E_SUCCESS" )
    => /\ HasFrame(msLocal.stream0)
       /\ msLocal.receive = FramePayload(msLocal.stream0)
       /\ msRx \o msDevice = Drop(msLocal.stream0, 4 + Len(msLocal.receive))

\* the bytes are no binary plist
NotABinaryPlist(bytes) ==
    \/ Len(bytes) < 2
    \/ bytes[1] # 98
    \/ bytes[Len(bytes)] # 116
    \/ \E i \in 2..(Len(bytes) - 1) : bytes[i] - 100 \notin 1..Len(PlistNodes)

\* C8: when the completely received payload of a frame does not parse as a
\* plist, mobilesync_recv fails with a plist error, never reports success,
\* and leaves the connection as it was.
C8_UnparseableIsPlistError ==
    ( /\ MsReturned
      /\ HasFrame(msLocal.stream0)
      /\ msLocal.receive = FramePayload(msLocal.stream0)
      /\ msLocal.receive # << >>
      /\ msRx \o msDevice = Drop(msLocal.stream0, 4 + Len(msLocal.receive))
      /\ NotABinaryPlist(msLocal.receive) )
    => /\ msLocal.result = "MOBILESYNC_E_PLIST_ERROR"
       /\ msConnection = "open"

\* C16: the MobileSync client owns a mutex of its own, and the reads of two
\* concurrent mobilesync_recv calls on one client are never interleaved: the
\* length read and the payload reads of one call are made with no read of
\* another call between them.
C16_RecvNotInterleaved ==
    \A i, k \in 1..Len(msReads) :
       (i < k /\ msReads[i].call = msReads[k].call
              /\ msReads[i].bytes > 0 /\ msReads[k].bytes > 0) =>
          \A j \in i..k : msReads[j].bytes > 0 => msReads[j].call = msReads[i].call

(***************************************************************************)
(*                           AFC: the properties                           *)
(***************************************************************************)
\* thread t is between its first afc_dispatch_packet and its last afc_receive_data
AfcInExchange(t) ==
    /\ afcPc[t] # "idle"
    /\ \E i \in 1..Len(afcLog) : afcLog[i].call = afcLocal[t].call
    /\ afcPc[t] # "unlock"

\* C2: the requests and responses of one AFC operation are never interleaved
\* with those of an operation of another thread on the same client, and a
\* thread that has dispatched a request and has a dispatch or a receive still
\* to do holds the client mutex (for afc_file_read and afc_file_write across
\* all their segments).
C2_OperationsNotInterleaved ==
    /\ \A i, k \in 1..Len(afcLog) :
          (i < k /\ afcLog[i].call = afcLog[k].call) =>
              \A j \in i..k : afcLog[j].call = afcLog[i].call
    /\ \A t \in Apps : AfcInExchange(t) => afcMutex = t

\* app1 is in the middle of an afc_file_write, its first segment acknowledged
\* and more to send, while app2 has called an operation and waits for the mutex
C2_Witness ==
    /\ afcLocal["app1"].op = "afc_file_write"
    /\ afcPc["app1"] = "fw_segment"
    /\ afcLocal["app1"].i = 1
    /\ afcLocal["app1"].current_count < afcLocal["app1"].length
    /\ \E i \in 1..Len(afcLog) :
          afcLog[i].call = afcLocal["app1"].call /\ afcLog[i].ev = "response"
    /\ afcPc["app2"] = "lock"
    /\ afcMutex = "app1"

(***************************************************************************)
(*                      The mux transport: the properties                  *)
(***************************************************************************)
\* C14: send_to_phone never reports a partial write: whenever the bulk write
\* transfers fewer than datalen bytes (a negative result included) it
\* returns -1, and otherwise it returns the number of bytes written, which
\* is at least datalen.
C14_NoPartialWriteReported ==
    \A i \in 1..Len(muxWire) :
       /\ muxWire[i].written < muxWire[i].datalen => muxWire[i].ret = -1
       /\ muxWire[i].written >= muxWire[i].datalen =>
             /\ muxWire[i].ret = muxWire[i].written
             /\ muxWire[i].ret >= muxWire[i].datalen

C14_Witness ==
    /\ \E i \in 1..Len(muxWire) :
          /\ muxWire[i].written = muxWire[i].datalen - 1
          /\ muxWire[i].ret = -1
    /\ \E i \in 1..Len(muxWire) : muxWire[i].ret = muxWire[i].datalen

\* the bulk write i returned short
ShortWrite(i) == muxWire[i].written < muxWire[i].datalen

ShortWritten(c) == \E i \in 1..Len(muxWire) : muxWire[i].conn = c /\ ShortWrite(i)

\* C15: after a bulk write on a connection returns short, that connection is
\* in state Closed and every later send on it fails with a mux error without
\* writing further bytes; a service operation (afc_dispatch_packet) whose
\* first send failed puts no later part of the same or of a following
\* request on the wire.
C15_ShortWriteCloses ==
    /\ \A i \in 1..Len(muxWire) :
          ShortWrite(i) =>
             /\ muxConns[muxWire[i].conn].state = "Closed"
             /\ \A j \in (i + 1)..Len(muxWire) : muxWire[j].conn # muxWire[i].conn
    /\ (muxLast.op = "iphone_device_send" /\ ShortWritten(muxLast.conn)) =>
          muxLast.ret = "MuxError" /\ muxLast.sent = 0

C15_Witness ==
    /\ Len(muxWire) = 1
    /\ ShortWrite(1)
    /\ muxWire[1].payload = 5
    /\ muxLast.n = 2
    /\ muxLast.op = "afc_dispatch_packet"
    /\ muxLast.conn = muxWire[1].conn
    /\ muxLast.sent = 0

\* the bulk write this step made for connection c, if any, failed
WriteFailed(c) ==
    /\ Len(muxWire') > Len(muxWire)
    /\ muxWire'[Len(muxWire')].conn = c
    /\ muxWire'[Len(muxWire')].ret < 0

FinSent(c) ==
    /\ Len(muxWire') = Len(muxWire) + 1
    /\ muxWire'[Len(muxWire')].conn = c
    /\ muxWire'[Len(muxWire')].flags = "FIN"
    /\ muxWire'[Len(muxWire')].ret >= 0

\* C17: a connection changes state only along Connecting -> Open (on
\* SYN/ACK) -> HalfClosed (on the local FIN) -> Closed (on the FIN of the
\* peer or the timeout), or directly to Closed on an RST or a protocol
\* violation (an out-of-order packet or a short bulk write, the errors
\* reported as MuxError); Closed is absorbing, and no other transition occurs.
C17_StateMachine ==
    [][/\ \A c \in 1..Len(muxConns) :
             /\ muxConns[c].state = "Closed" => muxConns'[c].state = "Closed"
             /\ muxConns[c].state # muxConns'[c].state =>
                   \/ /\ muxConns[c].state = "Connecting"
                      /\ muxConns'[c].state = "Open"
                      /\ muxLast'.op = "syn_ack"
                   \/ /\ muxConns[c].state = "Open"
                      /\ muxConns'[c].state = "HalfClosed"
                      /\ FinSent(c)
                   \/ /\ muxConns[c].state = "HalfClosed"
                      /\ muxConns'[c].state = "Closed"
                      /\ muxLast'.op \in {"peer_fin", "close_timeout"}
                   \/ /\ muxConns'[c].state = "Closed"
                      /\ \/ muxLast'.op \in {"reset", "peer_rst", "bad_seq"}
                         \/ WriteFailed(c)
       /\ Len(muxConns') >= Len(muxConns)
       /\ \A c \in (Len(muxConns) + 1)..Len(muxConns') :
             \/ muxConns'[c].state = "Connecting"
             \/ ~muxConns'[c].live /\ WriteFailed(c)]_muxVars

C17_Witness ==
    \E c \in 1..Len(muxConns) :
       /\ muxConns[c].state = "Closed"
       /\ muxLast.op = "peer_fin" /\ muxLast.conn = c
       /\ \E i, j \in 1..Len(muxWire) :
             /\ i < j
             /\ muxWire[i].conn = c /\ muxWire[i].flags = "SYN"
             /\ muxWire[j].conn = c /\ muxWire[j].flags = "FIN"

Mod32(count) == [hi |-> count.hi % 65536, lo |-> count.lo]

C19_SourcePortsFromCounter ==
    /\ \A c \in 1..Len(muxConns) : muxConns[c].source_port = 4660 + (c - 1)
    /\ \A c, d \in 1..Len(muxConns) :
          c # d => muxConns[c].source_port # muxConns[d].source_port
    /\ muxNextPort = 4660 + Len(muxConns)


(***************************************************************************)
(*                       Lockdown: the properties                          *)
(***************************************************************************)
\* C20: once StartSession with EnableSessionSSL = true has completed
\* successfully (in_SSL is set), every byte the lockdown client sends or
\* receives passes through the TLS session until StopSession: no cleartext
\* lockdown message is on the connection in between.
C20_SecuredThroughTls ==
    /\ \A i \in 1..Len(ldWire) : ldWire[i].state = "Secured" => ldWire[i].kind # "clear"
    /\ ldState = "Secured" => ldIn_SSL = 1
    /\ ldIn_SSL = 1 => ldState \in {"Secured", "Closed"}
    /\ ldState = "Secured" => ldSession_id # ""

C20_Witness ==
    \E i, j, k \in 1..Len(ldWire) :
       /\ i < j /\ j < k
       /\ ldWire[i].what = "GetValue" /\ ldWire[i].kind = "tls"
       /\ ldWire[j].what = "StopSession" /\ ldWire[j].kind = "tls"
       /\ ldWire[k].what = "GetValue" /\ ldWire[k].kind = "clear"

GetSpecificReturned ==
    /\ usbArgs.api = "iphone_get_specific_device"
    /\ usbArgs.free = "not_called"
    /\ usbPc = "done"

\* usb_open gave a handle
HandleOpened == \E i \in 1..Len(usbLog) : usbLog[i].op = "usb_open" /\ usbLog[i].ret = 0

\* C30: on every non-success return of iphone_get_specific_device *device is
\* what it was at the call (NULL when the call was valid), and a USB handle
\* opened during the attempt has been released and closed before the return;
\* with device NULL or *device not NULL it returns IPHONE_E_INVALID_ARG
\* without any USB operation.
C30_FailureLeavesNothing ==
    GetSpecificReturned =>
       /\ usbRet # "IPHONE_E_SUCCESS" =>
             /\ usbOut = IF usbArgs.device = "holds_device" THEN "other_device" ELSE NULL
             /\ HandleOpened =>
                   /\ phoneDevice = "closed"
                   /\ Len(usbLog) >= 3
                   /\ usbLog[Len(usbLog) - 1].op = "usb_release_interface"
                   /\ usbLog[Len(usbLog)].op = "usb_close"
                   /\ \A i \in 1..(Len(usbLog) - 1) : usbLog[i].op # "usb_close"
             /\ ~HandleOpened => phoneDevice = NULL
       /\ usbArgs.device \in {"null_pointer", "holds_device"} =>
             usbRet = "IPHONE_E_INVALID_ARG" /\ usbLog = << >>
       /\ usbArgs.device = "holds_NULL" => usbRet # "IPHONE_E_INVALID_ARG"

C30_Witness ==
    /\ GetSpecificReturned
    /\ usbRet = "IPHONE_E_BAD_HEADER"
    /\ HandleOpened
    /\ phoneDevice = "closed"
    /\ usbOut = NULL
    /\ usbLog[Len(usbLog)].op = "usb_close"

(***************************************************************************)
(*                 Closing a device that has connections                   *)
(***************************************************************************)
\* iphone_free_device, called by the application, has released the interface
DeviceReleased ==
    /\ usbArgs.free = "phone"
    /\ \E i \in 1..Len(usbLog) : usbLog[i].op = "usb_release_interface"

\* C21: closing a device that has live connections resets them first: when
\* the USB interface is released and the handle closed, every connection of
\* the device is Closed (so that a recv blocked on one returns Closed).
C21_CloseResetsConnections ==
    DeviceReleased =>
       \A c \in 1..Len(muxConns) : muxConns[c].live => muxConns[c].state = "Closed"

(***************************************************************************)
(*              AFC: packet numbers and the header of a response           *)
(***************************************************************************)
AfcHasReceived == afcIo.received.ret # "none"

C24_MagicChecked ==
    (AfcHasReceived /\ afcIo.received.ret = "AFC_E_SUCCESS") =>
       afcIo.response.magic = "CFA6LPAA"

(***************************************************************************)
(*          iphone_np_set_notify_callback: what a call leaves              *)
(***************************************************************************)
\* thread t returns from iphone_np_set_notify_callback in this step
SncReturns(t) == npPc[t] = "snc_unlock" /\ npPc'[t] = "idle"

\* no notifier thread is running
NoNotifierRuns == \A n \in Notifiers : npPc[n] \in {"unborn", "exited"}

\* the result of a call says whether the call started a notifier thread, and
\* a call with notify_cb NULL returns with no notifier thread left
SncResult(t) ==
    /\ npLocal'[t].ret = "IPHONE_E_SUCCESS"
          <=> ( /\ npLocal[t].cb # NULL
                /\ npLocal[t].created # NULL
                /\ npNotifier' = npLocal[t].created
                /\ npPc'[npLocal[t].created] # "unborn" )
    /\ npLocal[t].cb = NULL => npNotifier' = NULL /\ NoNotifierRuns'

\* a call that returns at once (client NULL) starts nothing and fails
SncRejected ==
    \A t \in Apps :
        ( /\ npLocal[t].op = "iphone_np_set_notify_callback"
          /\ npLocal[t].client = NULL )
        => npLocal[t].ret = "IPHONE_E_INVALID_ARG" /\ npLocal[t].created = NULL

RunningNotifiers == { n \in Notifiers : npPc[n] \notin {"unborn", "exited"} }

\* thread n is created in this step
NotifierCreated(n) == npPc[n] = "unborn" /\ npPc'[n] # "unborn"

\* C26: at every moment at most one notifier thread exists for the client, in
\* every interleaving of iphone_np_set_notify_callback calls of two threads:
\* a notifier is created only when every notifier created before has returned
\* and has been joined.
C26_OneNotifier ==
    /\ [](Cardinality(RunningNotifiers) <= 1)
    /\ [][\A n \in Notifiers :
             NotifierCreated(n) =>
                 /\ npNotifier = NULL
                 /\ \A m \in Notifiers \ {n} : npPc[m] \in {"unborn", "exited"}]_npVars

\* a second notifier runs after the first one was joined
C26_Witness ==
    /\ npPc["notifier1"] = "exited"
    /\ npNotifier = "notifier2"
    /\ npPc["notifier2"] \notin {"unborn", "exited"}

(***************************************************************************)
(*          iphone_np_free_client and the users of the connection          *)
(***************************************************************************)
\* thread t is inside iphone_mux_recv_timeout or iphone_mux_send on a
\* connection
UsesConnection(t) ==
    \/ npPc[t] \in {"gn_recv_len_end", "gn_recv_payload_end"} /\ npLocal[t].rxconn # NULL
    \/ npPc[t] \in {"ps_send_len", "ps_send_payload"} /\ npConnection # NULL

\* C27: iphone_np_free_client never frees the mux connection while another
\* thread is using it: no thread is inside a receive or a send on a
\* connection that has been passed to iphone_mux_free_client.
C27_NoUseOfFreedConnection ==
    npConnFreed => \A t \in NpThreads : ~UsesConnection(t)

(***************************************************************************)
(*                 the callbacks the notifier threads invoke               *)
(***************************************************************************)
RECURSIVE CallbacksBy(_, _)
\* the notifications thread n has passed to its callback, in order
CallbacksBy(log, n) ==
    IF log = << >> THEN << >>
    ELSE IF Head(log).by = n
         THEN << Head(log).notification >> \o CallbacksBy(Tail(log), n)
         ELSE CallbacksBy(Tail(log), n)

\* thread n has a notification in hand that it has not yet passed on
HasPending(n) == npPc[n] = "nt_callback" /\ npLocal[n].notification # NULL

\* the notifications returned to thread n that it must have passed on by now
PassedOn(n) ==
    IF HasPending(n)
    THEN SubSeq(npLocal[n].returned, 1, Len(npLocal[n].returned) - 1)
    ELSE npLocal[n].returned

\* C28: once iphone_np_set_notify_callback has returned after replacing or
\* de-registering a callback, the notifier of the previous callback has
\* returned and never invokes it again; and each notifier has invoked its own
\* callback exactly once for each notification that
\* iphone_np_get_notification returned to it, in the order received.
C28_CallbackOncePerNotification ==
    /\ [](\A n \in Notifiers :
             /\ CallbacksBy(npCallbacks, n) = PassedOn(n)
             /\ \A i \in 1..Len(npCallbacks) :
                   npCallbacks[i].by = n => npCallbacks[i].cb = npLocal[n].cb)
    /\ [][\A t \in Apps :
             SncReturns(t) =>
                 \A n \in Notifiers \ {npLocal[t].created} :
                     npPc'[n] \in {"unborn", "exited"}]_npVars
    /\ [][\A n \in Notifiers :
             npPc[n] = "exited" =>
                 /\ npPc'[n] = "exited"
                 /\ CallbacksBy(npCallbacks', n) = CallbacksBy(npCallbacks, n)]_npVars

\* the first notifier passed the first notification to its callback and was
\* replaced; the second notifier passed the second notification to the new
\* callback
C28_Witness ==
    /\ Len(npCallbacks) = 2
    /\ npCallbacks[1] = [by |-> "notifier1", cb |-> "notify_cb",
                         notification |-> "com.apple.mobile.application_installed"]
    /\ npCallbacks[2] = [by |-> "notifier2", cb |-> "other_cb",
                         notification |-> "com.apple.itunes-mobdev.syncDidStart"]
    /\ npPc["notifier1"] = "exited"
    /\ npPc["app1"] = "idle"

(***************************************************************************)
(*                 the client mutexes: taken once, given back              *)
(***************************************************************************)
\* thread t is inside an AFC operation, between its afc_lock and its afc_unlock
AfcLocked(t) == afcPc[t] \notin {"idle", "lock"}

\* thread t is inside a Notification Proxy operation, between its np_lock and
\* its np_unlock
NpLocked(t) ==
    npPc[t] \in {"gn_recv_len", "gn_recv_len_end", "gn_recv_payload", "gn_recv_payload_end",
                 "gn_unlock", "ps_send_len", "ps_send_payload", "ps_sent", "ps_unlock",
                 "snc_detach", "snc_join", "snc_create", "snc_unlock"}

\* no Notification Proxy operation is in progress in thread t
NpOutside(t) == npPc[t] \in {"idle", "unborn", "exited", "nt_loop", "nt_callback"}

AfcMutexPaired ==
    /\ \A t \in Apps :
          /\ afcMutex = t <=> AfcLocked(t)
          /\ afcLocal[t].locks <= 1
          /\ afcPc[t] = "idle" => afcMutex # t
    /\ (\A t \in Apps : afcPc[t] = "idle") => afcMutex = NULL

NpMutexPaired ==
    /\ \A t \in NpThreads :
          /\ npMutex = t <=> NpLocked(t)
          /\ npLocal[t].locks <= 1
          /\ NpOutside(t) => npMutex # t
    /\ (\A t \in NpThreads : NpOutside(t)) => npMutex = NULL

\* C29: every AFC operation and every Notification Proxy operation that takes
\* the client mutex gives it back on every return path, error returns
\* included, and takes it at most once per call: the mutex is held exactly
\* by a thread that is between the lock and the unlock of a call in progress,
\* it is free whenever no operation is in progress on the client, and a
\* call that has returned, with whatever result, does not hold it.
C29_MutexReleasedOnEveryReturn == AfcMutexPaired /\ NpMutexPaired

\* one thread has returned from iphone_np_get_notification with
\* IPHONE_E_PLIST_ERROR and the other from an AFC operation with an error,
\* each after taking the mutex once, and both mutexes are free
C29_Witness ==
    /\ \E t \in Apps :
          /\ npPc[t] = "idle"
          /\ npLocal[t].op = "iphone_np_get_notification"
          /\ npLocal[t].ret = "IPHONE_E_PLIST_ERROR"
          /\ npLocal[t].locks = 1
    /\ \E t \in Apps :
          /\ afcPc[t] = "idle"
          /\ afcLocal[t].op \in LockedAfcOps
          /\ afcLocal[t].result \in {"AFC_E_NOT_ENOUGH_DATA", "AFC_E_MUX_ERROR"}
          /\ afcLocal[t].locks = 1
    /\ afcMutex = NULL
    /\ npMutex = NULL


\* ---------------------------------------------------------------------
\* afc_receive_data: the lengths of the header and the buffer of the data

\* the header of the response passed the checks of lines 575-594
AfcHeaderAccepted ==
    /\ AfcHasReceived
    /\ afcIo.received.ret \notin {"AFC_E_MUX_ERROR", "AFC_E_OP_HEADER_INVALID"}

\* C31: every header afc_receive_data accepts has
\* sizeof(AFCPacket) <= this_length <= entire_length, and the bytes it reads
\* into the buffer it allocated never exceed the size of that buffer,
\* entire_length - sizeof(AFCPacket)
C31_LengthsWithinBuffer ==
    AfcHeaderAccepted =>
        /\ SizeofAFCPacket <= afcIo.response.this_length
        /\ afcIo.response.this_length <= afcIo.response.entire_length
        /\ afcIo.received.stored <= afcIo.response.entire_length - SizeofAFCPacket

\* C32: afc_receive_data returns AFC_E_SUCCESS with a payload that is not
\* empty only when all entire_length - sizeof(AFCPacket) bytes the header
\* announced were received
C32_NoTruncatedPayload ==
    (AfcHasReceived /\ afcIo.received.ret = "AFC_E_SUCCESS" /\ afcIo.received.bytes > 0) =>
        afcIo.received.bytes = afcIo.response.entire_length - SizeofAFCPacket


\* ---------------------------------------------------------------------
\* afc_file_read and afc_file_write: the bytes asked for, stored and counted

\* C33: afc_file_read asks for at most 65536 bytes per request and never for
\* more than the bytes still missing, stops at the first response without
\* data or when length bytes are collected, and the bytes it stores into data
\* (current_count) and the value it writes to *bytes never exceed length
C33_ReadWithinLength ==
    \A t \in Apps :
        afcLocal[t].op = "afc_file_read" =>
            /\ afcPc[t] = "fr_receive" =>
                   /\ afcLocal[t].size <= MAXIMUM_READ_SIZE
                   /\ afcLocal[t].size <= afcLocal[t].length - afcLocal[t].current_count
            /\ (afcPc[t] = "unlock" /\ afcLocal[t].ret = "AFC_E_SUCCESS") =>
                   \/ afcLocal[t].bytes_loc = 0
                   \/ afcLocal[t].current_count >= afcLocal[t].length
            /\ afcLocal[t].current_count <= afcLocal[t].length
            /\ afcLocal[t].bytes_set => afcLocal[t].bytes <= afcLocal[t].length

\* the requests thread t has sent in the call it is in
FwRequests(t) ==
    SelectSeq(afcLog, LAMBDA e : e.ev = "request" /\ e.call = afcLocal[t].call)

\* the events of the call thread t is in
FwEvents(t) == SelectSeq(afcLog, LAMBDA e : e.call = afcLocal[t].call)

\* thread t sends the k-th segment of its afc_file_write in this step
FwSends(t, k) ==
    /\ afcLocal[t].op = "afc_file_write"
    /\ Len(FwRequests(t)) = k - 1
    /\ Len(FwRequests(t)') = k

\* the segments of a write of length bytes: the full ones, then what is left
FwSegmentSize(length, k) ==
    IF k <= length \div MAXIMUM_WRITE_SIZE THEN MAXIMUM_WRITE_SIZE
    ELSE IF k = length \div MAXIMUM_WRITE_SIZE + 1 THEN length % MAXIMUM_WRITE_SIZE
    ELSE 0

\* C34: afc_file_write sends floor(length / 32768) segments of 32768 bytes and
\* then one segment with the remainder (none when the remainder is empty,
\* nothing when length is 0), and segment k+1 only after the acknowledgement
\* of segment k was received successfully: a failed one stops the write
C34_SegmentsInOrder ==
    [][\A t \in Apps : \A k \in 1..(afcLocal[t].segments + 2) :
          FwSends(t, k) =>
              /\ FwSegmentSize(afcLocal[t].length, k) > 0
              /\ afcLog'[Len(afcLog')].size = FwSegmentSize(afcLocal[t].length, k)
              /\ k > 1 => /\ FwEvents(t)[Len(FwEvents(t))].ev = "response"
                          /\ afcLocal[t].ret = "AFC_E_SUCCESS"]_vars

\* C35: whenever afc_file_write returns AFC_E_SUCCESS, *bytes equals length
\* (the bytes of the file sent and acknowledged, without header bytes)
C35_WriteCountsLength ==
    \A t \in Apps :
        (afcLocal[t].op = "afc_file_write" /\ afcLocal[t].result = "AFC_E_SUCCESS") =>
            /\ afcLocal[t].bytes_set
            /\ afcLocal[t].bytes = afcLocal[t].length


\* ---------------------------------------------------------------------
\* mobilesync_recv: the payload loop ends

\* mobilesync_recv is past its argument check and has not returned
MsRunning == msPc # "idle"

\* a receive is made in the payload loop in this step
MsLoopReceives == msPc = "ms_loop" /\ Len(msReads') = Len(msReads) + 1

=============================================================================
